---- MODULE Spec2Model ----
(***************************************************************************)
(* A model of TheatreScraper: the snapshot differ and the CSV persistence  *)
(* of src/src/data_storage.py and src/src/models.py, and the ten site      *)
(* extractors, the date interpreter, the dispatcher and the page fetcher   *)
(* of src/src/scrapers/.                                                   *)
(*                                                                         *)
(* Python values are tagged tuples, so that None, a float NaN, a str and a *)
(* datetime are four different things, as they are in the program.         *)
(***************************************************************************)
EXTENDS Integers, Sequences, FiniteSets, TLC

VARIABLES
    pc,             \* the step the modelled call has reached
    current,        \* current_shows: the records handed to the differ
    previous,       \* previous_shows: the records it is compared against
    report,         \* the ChangeReport returned
    files,          \* the snapshots directory: a sequence of [name, mtime, rows]
    clock,          \* the file system's modification-time counter
    today,          \* the day of datetime.now()
    runs,           \* the number of generate_daily_snapshot runs so far
    previous_filename, \* the snapshot the last run compared against
    loaded,         \* what load_snapshot returned
    site,           \* theater_id handed to the extractor
    page,           \* the parsed document, as the extractor sees it
    result,         \* what the extractor returned
    given,          \* the argument of parse_date_string
    strict_answer,  \* the date library's answer to the day-first parse
    fuzzy_answer,   \* the date library's answer to the fuzzy parse
    returned,       \* what parse_date_string came to
    max_retries,    \* fetch_html: the number of attempts allowed
    attempt,        \* fetch_html: the loop variable
    requests,       \* fetch_html: the answers to the requests made so far
    fetched,        \* what fetch_html returned
    theaters,       \* main: args.theaters
    no_email,       \* main: args.no_email
    config_issues,  \* main: what validate_config returned
    scrapes,        \* what fetch_html comes to for each site
    all_shows,      \* scrape_theaters: the records collected
    errors,         \* scrape_theaters: the error strings collected
    attempted,      \* the calls of scrape_theater_shows made, in order
    email_config,   \* EMAIL_CONFIG
    smtp_raises,    \* the SMTP step that raises and the exception it raises
    smtp_log,       \* the SMTP steps made, in order
    notified,       \* what notify_updates came to
    status          \* the exit status of main

vars == <<pc, current, previous, report, files, clock, today, runs,
          previous_filename, loaded, site, page, result, given, strict_answer,
          fuzzy_answer, returned, max_retries, attempt, requests, fetched,
          theaters, no_email, config_issues, scrapes, all_shows, errors,
          attempted, email_config, smtp_raises, smtp_log, notified, status>>

-----------------------------------------------------------------------------
(* Python values *)

None == <<"None", "">>
NaN == <<"float", "nan">>
Str(s) == <<"str", s>>
Datetime(d) == <<"datetime", d>>

IsStr(v) == v[1] = "str"
IsDatetime(v) == v[1] = "datetime"

\* bool(v): None and "" are falsy; a non-empty str, a datetime and NaN are truthy
Truthy(v) == v # None /\ v # Str("")

\* a != b in Python: NaN differs from everything, itself included
PyNe(a, b) == a # b \/ a = NaN \/ b = NaN

NoReport == [new_shows |-> <<>>, updated_shows |-> <<>>,
             unchanged_shows |-> <<>>, removed_shows |-> <<>>]

-----------------------------------------------------------------------------
(* TheaterShow records the differ is exercised on *)

Show(t, v) ==
    [title |-> Str(t), venue |-> Str(v), url |-> Str("https://example.com/show"),
     performance_start_date |-> Datetime("2025-03-01"),
     performance_end_date |-> Datetime("2025-03-31"),
     member_sale_date |-> None, general_sale_date |-> None,
     price_range |-> None, genre |-> None, description |-> None,
     theater_id |-> Str("theater_a"), last_updated |-> Datetime("2025-02-01")]

ShowA == Show("Show 1", "Theatre A")
ShowB == Show("Show 1", "Theatre B")
ShowC == Show("Show 2", "Theatre A")

\* ShowA with one tracked field changed, and with only untracked fields changed
ShowA_start == [ShowA EXCEPT !.performance_start_date = Datetime("2025-03-10")]
ShowA_end == [ShowA EXCEPT !.performance_end_date = None]
ShowA_price == [ShowA EXCEPT !.price_range = Str("GBP 20-50")]
ShowA_desc == [ShowA EXCEPT !.description = Str("An exciting show")]
ShowA_untracked ==
    [ShowA EXCEPT !.genre = Str("Drama"), !.url = Str("https://example.com/other"),
                  !.theater_id = Str("theater_b"),
                  !.member_sale_date = Datetime("2025-01-10"),
                  !.general_sale_date = Datetime("2025-01-20"),
                  !.last_updated = Datetime("2025-02-02")]
ShowB_desc == [ShowB EXCEPT !.description = Str("An exciting show")]

ShowPool == {ShowA, ShowA_start, ShowA_end, ShowA_price, ShowA_desc,
             ShowA_untracked, ShowB, ShowB_desc, ShowC}

\* the two snapshots handed to one comparison hold at most MaxShows records
MaxShows == 4

SeqsUpTo(S, n) == UNION {[1..k -> S] : k \in 0..n}

-----------------------------------------------------------------------------
(* compare_snapshots *)

Key(show) == <<show.title, show.venue>>

RECURSIVE DictIndex(_, _, _)
\* the position of key k in the dict d (a sequence of <<key, value>>), 0 if absent
DictIndex(d, k, i) ==
    IF i > Len(d) THEN 0
    ELSE IF d[i][1] = k THEN i ELSE DictIndex(d, k, i + 1)

HasKey(d, k) == DictIndex(d, k, 1) # 0
DictGet(d, k) == d[DictIndex(d, k, 1)][2]

\* mutant: a list of pairs, which keeps every record of a repeated key
DictPut_AlwaysAppend(d, k, v) == Append(d, <<k, v>>)

\* mutant: a new key is put first
DictPut_Prepend(d, k, v) ==
    IF HasKey(d, k) THEN [d EXCEPT ![DictIndex(d, k, 1)] = <<k, v>>]
    ELSE <<(<<k, v>>)>> \o d

\* d[k] = v: a new key goes last, an existing key keeps its place and takes v
DictPut(d, k, v) ==
    IF HasKey(d, k) THEN [d EXCEPT ![DictIndex(d, k, 1)] = <<k, v>>]
    ELSE Append(d, <<k, v>>)

RECURSIVE DictOfFrom_KeepFirst(_, _, _)
\* mutant: a key seen before keeps its first record
DictOfFrom_KeepFirst(shows, i, d) ==
    IF i > Len(shows) THEN d
    ELSE DictOfFrom_KeepFirst(shows, i + 1,
            IF HasKey(d, Key(shows[i])) THEN d
            ELSE Append(d, <<Key(shows[i]), shows[i]>>))

RECURSIVE DictOfFrom(_, _, _)
DictOfFrom(shows, i, d) ==
    IF i > Len(shows) THEN d
    ELSE DictOfFrom(shows, i + 1, DictPut(d, Key(shows[i]), shows[i]))

\* {(show.title, show.venue): show for show in shows}
DictOf(shows) == DictOfFrom(shows, 1, <<>>)

\* mutant: the description is not compared
TrackedFieldsDiffer_NoDescription(current_show, previous_show) ==
    \/ PyNe(current_show.performance_start_date, previous_show.performance_start_date)
    \/ PyNe(current_show.performance_end_date, previous_show.performance_end_date)
    \/ PyNe(current_show.price_range, previous_show.price_range)

\* mutant: the genre is compared too
TrackedFieldsDiffer_WithGenre(current_show, previous_show) ==
    \/ PyNe(current_show.performance_start_date, previous_show.performance_start_date)
    \/ PyNe(current_show.performance_end_date, previous_show.performance_end_date)
    \/ PyNe(current_show.price_range, previous_show.price_range)
    \/ PyNe(current_show.description, previous_show.description)
    \/ PyNe(current_show.genre, previous_show.genre)

\* the condition of the if that decides updated against unchanged
TrackedFieldsDiffer(current_show, previous_show) ==
    \/ PyNe(current_show.performance_start_date, previous_show.performance_start_date)
    \/ PyNe(current_show.performance_end_date, previous_show.performance_end_date)
    \/ PyNe(current_show.price_range, previous_show.price_range)
    \/ PyNe(current_show.description, previous_show.description)

RECURSIVE CompareLoop(_, _, _, _)
\* for key, current_show in current_dict.items(): ...
CompareLoop(current_dict, previous_dict, i, r) ==
    IF i > Len(current_dict) THEN r
    ELSE LET key == current_dict[i][1]
             current_show == current_dict[i][2]
         IN  IF ~HasKey(previous_dict, key)
             THEN CompareLoop(current_dict, previous_dict, i + 1,
                     [r EXCEPT !.new_shows = Append(@, current_show)])
             ELSE LET previous_show == DictGet(previous_dict, key)
                  IN  IF TrackedFieldsDiffer(current_show, previous_show)
                      THEN CompareLoop(current_dict, previous_dict, i + 1,
                              [r EXCEPT !.updated_shows =
                                  Append(@, [current |-> current_show,
                                             previous |-> previous_show])])
                      ELSE CompareLoop(current_dict, previous_dict, i + 1,
                              [r EXCEPT !.unchanged_shows = Append(@, current_show)])

\* mutant: every previous show is reported removed
RemovedFrom_All(previous_dict, current_dict, i) ==
    [j \in 1..Len(previous_dict) |-> previous_dict[j][2]]

\* mutant: the removed shows are collected from the end of previous_dict
RemovedFrom_Reversed(previous_dict, current_dict, i) ==
    LET n == Len(previous_dict)
        reversed == [j \in 1..n |-> previous_dict[n + 1 - j]]
        kept == SelectSeq(reversed, LAMBDA e : ~HasKey(current_dict, e[1]))
    IN  [j \in 1..Len(kept) |-> kept[j][2]]

RECURSIVE RemovedFrom(_, _, _)
\* [show for key, show in previous_dict.items() if key not in current_dict]
RemovedFrom(previous_dict, current_dict, i) ==
    IF i > Len(previous_dict) THEN <<>>
    ELSE IF HasKey(current_dict, previous_dict[i][1])
         THEN RemovedFrom(previous_dict, current_dict, i + 1)
         ELSE <<previous_dict[i][2]>> \o RemovedFrom(previous_dict, current_dict, i + 1)

compare_snapshots(current_shows, previous_shows) ==
    LET current_dict == DictOf(current_shows)
        previous_dict == DictOf(previous_shows)
        r == CompareLoop(current_dict, previous_dict, 1, NoReport)
    IN  [r EXCEPT !.removed_shows = RemovedFrom(previous_dict, current_dict, 1)]

-----------------------------------------------------------------------------
(* TheaterShow.to_dict / from_dict and the CSV snapshot files *)

DateFields == {"performance_start_date", "performance_end_date",
               "member_sale_date", "general_sale_date", "last_updated"}
ShowFields == {"title", "venue", "url", "performance_start_date",
               "performance_end_date", "member_sale_date", "general_sale_date",
               "price_range", "genre", "description", "theater_id", "last_updated"}

\* the days the modelled datetimes fall on
DayTexts == {"2025-01-10", "2025-01-20", "2025-02-01", "2025-02-02",
             "2025-03-01", "2025-03-10", "2025-03-31"}

\* datetime.isoformat() of a midnight datetime
isoformat(dt) == Str(dt[2] \o "T00:00:00")

\* datetime.fromisoformat(v) inside from_dict's try: the datetime, or None where
\* it raises (TypeError for a float, ValueError for any other text)
fromisoformat_or_None(v) ==
    IF IsStr(v) /\ \E d \in DayTexts : v[2] = d \o "T00:00:00"
    THEN Datetime(CHOOSE d \in DayTexts : v[2] = d \o "T00:00:00")
    ELSE None

to_dict(show) ==
    [f \in ShowFields |->
        IF f = "last_updated" THEN isoformat(show[f])
        ELSE IF f \in DateFields
             THEN IF Truthy(show[f]) THEN isoformat(show[f]) ELSE None
             ELSE show[f]]

from_dict(data) ==
    [f \in ShowFields |->
        IF f \in DateFields /\ Truthy(data[f])
        THEN fromisoformat_or_None(data[f])
        ELSE data[f]]

\* DataFrame.to_csv: None and NaN are written as an empty cell, a str as its text
to_csv_cell(v) == IF v = None \/ v = NaN THEN "" ELSE v[2]

\* pd.read_csv: an empty cell is read as float NaN, any other cell of the
\* modelled texts (none is numeric, none is one of pandas' NA words) as str
read_csv_cell(c) == IF c = "" THEN NaN ELSE Str(c)

\* the filename of the daily snapshot of day d
SnapshotName(d) == "theater_snapshot_" \o ToString(20250300 + d) \o ".csv"

Exists(dir, filename) == filename \in DOMAIN dir

\* save_snapshot(shows, filename) in directory dir at modification time mtime;
\* a DataFrame of no rows has no columns and is written as an empty file
save_snapshot(dir, shows, filename, mtime) ==
    [n \in DOMAIN dir \cup {filename} |->
        IF n = filename
        THEN [mtime |-> mtime,
              columns |-> IF shows = <<>> THEN {} ELSE ShowFields,
              rows |-> [i \in 1..Len(shows) |->
                          [f \in ShowFields |-> to_csv_cell(to_dict(shows[i])[f])]]]
        ELSE dir[n]]

\* load_snapshot(filename): [] for a missing file and for a file read_csv
\* raises on (EmptyDataError: no columns)
load_snapshot(dir, filename) ==
    IF ~Exists(dir, filename) THEN <<>>
    ELSE IF dir[filename].columns = {} THEN <<>>
    ELSE [i \in 1..Len(dir[filename].rows) |->
            from_dict([f \in ShowFields |-> read_csv_cell(dir[filename].rows[i][f])])]

RECURSIVE SortByMtime(_, _)
\* csv_files.sort(key=getmtime): oldest first
SortByMtime(dir, names) ==
    IF names = {} THEN <<>>
    ELSE LET oldest == CHOOSE n \in names :
                          \A m \in names : dir[n].mtime <= dir[m].mtime
         IN  <<oldest>> \o SortByMtime(dir, names \ {oldest})

\* get_latest_snapshot(): csv_files sorted most recent first, [0]
get_latest_snapshot(dir) ==
    IF DOMAIN dir = {} THEN None
    ELSE LET csv_files == SortByMtime(dir, DOMAIN dir)
         IN  Str(csv_files[Len(csv_files)])

\* mutant: the oldest of the other snapshots is taken
PreviousOf_Oldest(dir, filename) ==
    LET latest == get_latest_snapshot(dir)
    IN  IF latest = Str(filename)
        THEN LET csv_files == SortByMtime(dir, DOMAIN dir)
             IN  IF Len(csv_files) > 1 THEN Str(csv_files[1]) ELSE None
        ELSE latest

\* the previous_filename generate_daily_snapshot settles on after saving
\* filename: None stands for the early return with no previous snapshot
PreviousOf(dir, filename) ==
    LET latest == get_latest_snapshot(dir)
    IN  IF latest = Str(filename)
        THEN LET csv_files == SortByMtime(dir, DOMAIN dir)
             IN  IF Len(csv_files) > 1
                 THEN Str(csv_files[Len(csv_files) - 1])
                 ELSE None
        ELSE latest

\* generate_daily_snapshot(current_shows) on day d with the directory dir and
\* the modification time mtime: the directory it leaves, the snapshot and the
\* records it compared against, and the report it returns
generate_daily_snapshot(dir, current_shows, d, mtime) ==
    LET filename == SnapshotName(d)
        saved == save_snapshot(dir, current_shows, filename, mtime)
        previous_name == PreviousOf(saved, filename)
    IN  IF previous_name = None
        THEN [files |-> saved, previous_filename |-> None, previous_shows |-> <<>>,
              report |-> [new_shows |-> current_shows, updated_shows |-> <<>>,
                          unchanged_shows |-> <<>>, removed_shows |-> <<>>]]
        ELSE LET previous_shows == load_snapshot(saved, previous_name[2])
             IN  [files |-> saved, previous_filename |-> previous_name,
                  previous_shows |-> previous_shows,
                  report |-> compare_snapshots(current_shows, previous_shows)]

-----------------------------------------------------------------------------
(* Text: the str methods and regular expressions the scrapers use *)

\* the module is written in ASCII: in a page text "~" stands for U+2013, the
\* en dash
EnDash == "~"

UpperCase == "ABCDEFGHIJKLMNOPQRSTUVWXYZ"
LowerCase == "abcdefghijklmnopqrstuvwxyz"
Digits == "0123456789"

Char(s, i) == SubSeq(s, i, i)
From(s, i) == SubSeq(s, i, Len(s))
CharsOf(alphabet) == {Char(alphabet, i) : i \in 1..Len(alphabet)}
IndexIn(alphabet, c) == CHOOSE i \in 1..Len(alphabet) : Char(alphabet, i) = c
Least(S) == CHOOSE i \in S : \A j \in S : i <= j

\* each capital with its small letter, and the other way round
ToLower == [c \in CharsOf(UpperCase) |-> Char(LowerCase, IndexIn(UpperCase, c))]
ToUpper == [c \in CharsOf(LowerCase) |-> Char(UpperCase, IndexIn(LowerCase, c))]
DigitValue == [c \in CharsOf(Digits) |-> IndexIn(Digits, c) - 1]

\* \d and \w
IsDigit(c) == c \in DOMAIN DigitValue
IsWordChar(c) ==
    c \in DOMAIN DigitValue \/ c \in DOMAIN ToLower \/ c \in DOMAIN ToUpper \/ c = "_"
AllDigits(s) == \A i \in 1..Len(s) : IsDigit(Char(s, i))

\* \b between the characters i - 1 and i of s
WordBoundary(s, i) ==
    (i > 1 /\ IsWordChar(Char(s, i - 1))) # (i <= Len(s) /\ IsWordChar(Char(s, i)))

RECURSIVE lower(_)
\* str.lower()
lower(s) ==
    IF s = "" THEN ""
    ELSE (IF Char(s, 1) \in DOMAIN ToLower THEN ToLower[Char(s, 1)]
          ELSE Char(s, 1)) \o lower(From(s, 2))

RECURSIVE upper(_)
\* str.upper()
upper(s) ==
    IF s = "" THEN ""
    ELSE (IF Char(s, 1) \in DOMAIN ToUpper THEN ToUpper[Char(s, 1)]
          ELSE Char(s, 1)) \o upper(From(s, 2))

\* sub in s
Contains(s, sub) ==
    \E i \in 1..(Len(s) - Len(sub) + 1) : SubSeq(s, i, i + Len(sub) - 1) = sub

\* s.startswith(prefix)
startswith(s, prefix) == Len(s) >= Len(prefix) /\ SubSeq(s, 1, Len(prefix)) = prefix

RECURSIVE lstrip(_)
lstrip(s) == IF s # "" /\ Char(s, 1) = " " THEN lstrip(From(s, 2)) ELSE s

RECURSIVE rstrip(_)
rstrip(s) ==
    IF s # "" /\ Char(s, Len(s)) = " " THEN rstrip(SubSeq(s, 1, Len(s) - 1)) ELSE s

\* str.strip(), and get_text(strip=True) of an element with one text node
strip(s) == lstrip(rstrip(s))

RECURSIVE collapse_spaces(_)
\* re.sub(r'\s+', ' ', s)
collapse_spaces(s) ==
    IF Len(s) < 2 THEN s
    ELSE IF Char(s, 1) = " " /\ Char(s, 2) = " " THEN collapse_spaces(From(s, 2))
    ELSE Char(s, 1) \o collapse_spaces(From(s, 2))

RECURSIVE int(_)
\* int(s) of a run of digits
int(s) ==
    IF s = "" THEN 0
    ELSE 10 * int(SubSeq(s, 1, Len(s) - 1)) + DigitValue[Char(s, Len(s))]

\* the length of the run of spaces, and of digits, that starts at position
\* i of s
RunOfSpaces(s, i) ==
    Least({n \in 0..(Len(s) - i + 1) : i + n > Len(s) \/ Char(s, i + n) # " "})
RunOfDigits(s, i) ==
    Least({n \in 0..(Len(s) - i + 1) : i + n > Len(s) \/ ~IsDigit(Char(s, i + n))})

RECURSIVE SplitOn(_, _, _)
\* re.split of s on one character of dashes; with trim, the pattern takes the
\* white space on both sides of the dash too (\s*[...]\s*)
SplitOn(s, dashes, trim) ==
    LET hits == {i \in 1..Len(s) : Char(s, i) \in dashes}
    IN  IF hits = {} THEN <<s>>
        ELSE LET p == Least(hits)
                 left == SubSeq(s, 1, p - 1)
                 right == From(s, p + 1)
             IN  <<IF trim THEN rstrip(left) ELSE left>>
                     \o SplitOn(IF trim THEN lstrip(right) ELSE right, dashes, trim)

-----------------------------------------------------------------------------
(* parse_date_string and the date library it consults *)

\* What one call of dateutil's parser.parse answers: a date, or an exception.
\* ParserError is a ValueError; an OverflowError is what the library raises
\* for a number too large for a date field.
ParsedDate(y, m, d) == [kind |-> "date", year |-> y, month |-> m, day |-> d]
ParserRaises(e) == [kind |-> e, year |-> 0, month |-> 0, day |-> 0]
CaughtErrors == {"ValueError", "TypeError"}

Pad2(n) == IF n < 10 THEN "0" \o ToString(n) ELSE ToString(n)

\* the datetime the parser's answer stands for
AsDatetime(r) ==
    Datetime(ToString(r.year) \o "-" \o Pad2(r.month) \o "-" \o Pad2(r.day))

\* re.match(r'^\d{4}$', clean_string)
IsFourDigits(s) == Len(s) = 4 /\ AllDigits(s)

\* re.match(r'^\d{1,2}[/.-]\d{1,2}[/.-]\d{2,4}$', clean_string)
IsNumericDate(s) ==
    \E a \in 1..2, b \in 1..2, c \in 2..4 :
        /\ Len(s) = a + b + c + 2
        /\ AllDigits(SubSeq(s, 1, a))
        /\ Char(s, a + 1) \in {"/", ".", "-"}
        /\ AllDigits(SubSeq(s, a + 2, a + b + 1))
        /\ Char(s, a + b + 2) \in {"/", ".", "-"}
        /\ AllDigits(SubSeq(s, a + b + 3, Len(s)))

month_names ==
    <<"jan", "feb", "mar", "apr", "may", "jun", "jul", "aug", "sep", "oct", "nov",
      "dec", "january", "february", "march", "april", "may", "june", "july",
      "august", "september", "october", "november", "december">>

\* the loop over enumerate(month_names, 1): some name in the text stands
\* for another month than the parsed one
MonthMismatch_NoModulo(clean_string, month) ==
    LET lowered == lower(clean_string)
    IN  \E i \in 1..Len(month_names) :
            Contains(lowered, month_names[i]) /\ i # month

\* mutant: only the first name of the list found in the text is compared
MonthMismatch_FirstNameOnly(clean_string, month) ==
    LET lowered == lower(clean_string)
        found == {i \in 1..Len(month_names) : Contains(lowered, month_names[i])}
    IN  /\ found # {}
        /\ (CHOOSE i \in found : \A j \in found : i <= j) % 12 # month % 12

MonthMismatch(clean_string, month) ==
    LET lowered == lower(clean_string)
    IN  \E i \in 1..Len(month_names) :
            Contains(lowered, month_names[i]) /\ i % 12 # month % 12

\* where \b(20\d{2})\b matches in s
YearPositions(s) ==
    {i \in 1..(Len(s) - 3) :
        /\ SubSeq(s, i, i + 1) = "20"
        /\ IsDigit(Char(s, i + 2))
        /\ IsDigit(Char(s, i + 3))
        /\ WordBoundary(s, i)
        /\ WordBoundary(s, i + 4)}

\* group(1) of the match that starts at position p of s
year_group(s, p) == Str(SubSeq(s, p, p + 3))

\* the leftmost of the matches at the positions found
leftmost_year(s, found) == IF found = {} THEN None ELSE year_group(s, Least(found))

\* re.search(r'\b(20\d{2})\b', clean_string): the leftmost match
year_match(s) == leftmost_year(s, YearPositions(s))

\* if year_match and int(year_match.group(1)) != result.year
year_differs(found, year) == found # None /\ int(found[2]) # year

YearMismatch_Unchecked(clean_string, year) == FALSE

YearMismatch(clean_string, year) == year_differs(year_match(clean_string), year)

\* len(clean_string) < 5
MinDateLength == 5

TooShort_Four(clean_string) == Len(clean_string) < MinDateLength - 1

TooShort(clean_string) == Len(clean_string) < MinDateLength

\* What a call of parse_date_string comes to: the value it returns, the
\* exception that leaves it ("" when it returns), the place it returned from
\* ("guard", "strict": the day-first parse of a numeric date, "fuzzy") and
\* the number of calls of the library it made
Outcome(value, raised, path, calls) ==
    [value |-> value, raised |-> raised, path |-> path, calls |-> calls]

\* the try block around date_parser.parse(clean_string, fuzzy=True)
FuzzyParse(clean_string, fuzzy, calls) ==
    IF fuzzy.kind = "date"
    THEN IF MonthMismatch(clean_string, fuzzy.month)
              \/ YearMismatch(clean_string, fuzzy.year)
         THEN Outcome(None, "", "fuzzy", calls)
         ELSE Outcome(AsDatetime(fuzzy), "", "fuzzy", calls)
    ELSE IF fuzzy.kind \in CaughtErrors
         THEN Outcome(None, "", "fuzzy", calls)
         ELSE Outcome(None, fuzzy.kind, "fuzzy", calls)

\* parse_date_string(date_string), where strict is what the library answers
\* to parse(clean_string, dayfirst=True) and fuzzy what it answers to
\* parse(clean_string, fuzzy=True)
parse_date_string(date_string, strict, fuzzy) ==
    IF ~Truthy(date_string) \/ ~IsStr(date_string)
    THEN Outcome(None, "", "guard", 0)
    ELSE LET clean_string == strip(collapse_spaces(date_string[2]))
         IN  IF TooShort(clean_string) THEN Outcome(None, "", "guard", 0)
             ELSE IF IsFourDigits(clean_string) THEN Outcome(None, "", "guard", 0)
             ELSE IF ~IsNumericDate(clean_string)
                  THEN FuzzyParse(clean_string, fuzzy, 1)
             ELSE IF strict.kind = "date"
                  THEN Outcome(AsDatetime(strict), "", "strict", 1)
             ELSE IF strict.kind \in CaughtErrors
                  THEN FuzzyParse(clean_string, fuzzy, 2)
             ELSE Outcome(None, strict.kind, "strict", 1)

-----------------------------------------------------------------------------
(* The site extractors *)

Sites == {"donmar", "national", "bridge", "hampstead", "marylebone", "soho_dean",
          "soho_walthamstow", "rsc", "royal_court", "drury_lane"}

\* What a candidate container holds that could name the show:
\*   "none"        no heading and no element with a title class
\*   "site"        the element the site's own title selector matches
\*   "h2h3"        an h2 or h3 that the site's selector does not match
\*   "h1h4"        an h1 or h4 that the site's selector does not match
\*   "titleclass"  an element that is no heading, with "title" in its class,
\*                 that the site's selector does not match
TitleKinds == {"none", "site", "h2h3", "h1h4", "titleclass"}

\* the text node of the title element, as written in the page
TitleTexts == {"Hamlet", "Macbeth", "  "}

\* What a container holds besides its title. Each field is None when the
\* element the site's selector looks for is not there, and the element's
\* text otherwise:
\*   href      the href of the anchor the site takes the url from
\*   date      the date element (Marylebone: the first div.date.blue)
\*   date2     Marylebone's second div.date.blue
\*   desc      the description (subtitle, subheading, intro) element
\*   price     the price element (Royal Court: the .btn of class sold-out)
\*   location  the element the venue is read from (Hampstead: the billing
\*             paragraph)
\* reads_start and reads_end are what the date library answers when it is
\* handed the text of the start date and of the end date of this container.
NoDetails ==
    [href |-> None, date |-> None, date2 |-> None,
     reads_start |-> ParserRaises("ValueError"),
     reads_end |-> ParserRaises("ValueError"),
     desc |-> None, price |-> None, location |-> None]

\* A container: wrap is the element the extractor reaches the title through
\* (Bridge: a.global-header__nav-link, RSC: div#PlayTitleCopy)
Container(title, details) ==
    [wrap |-> title.wrap, kind |-> title.kind, text |-> title.text,
     href |-> details.href, date |-> details.date, date2 |-> details.date2,
     reads_start |-> details.reads_start, reads_end |-> details.reads_end,
     desc |-> details.desc, price |-> details.price,
     location |-> details.location]

\* the containers that differ in their title only
Cards ==
    {Container(c, NoDetails) :
        c \in {t \in [wrap : BOOLEAN, kind : TitleKinds, text : TitleTexts] :
                  t.kind = "none" => t.text = "  "}}

\* A page: found tells whether the enclosing section the extractor looks for
\* first is there (Bridge: nav#global-header-overlay-block, Hampstead:
\* section.m-prodlist and div.prodlists, National: the "At the South Bank" h2
\* and its section, RSC: article.whatson and div#grid-view)
MaxCards == 2
Pages == [found : BOOLEAN, cards : SeqsUpTo(Cards, MaxCards)]

\* get_text(strip=True)
get_text_strip(t) == strip(t)

\* the kinds of title element the site's chain of lookups finds
LocatedKinds(s) ==
    IF s = "donmar" THEN {"site", "h2h3", "titleclass", "h1h4"}
    ELSE IF s = "marylebone" THEN {"site", "h2h3", "h1h4"}
    ELSE {"site"}

\* sites that return [] at once when the enclosing section is missing
NeedsSection(s) == s \in {"bridge", "hampstead", "national", "rsc"}

\* the title a site gives a container in which it finds no title element:
\* None where the container is skipped (continue)
TitlePlaceholder(s) ==
    IF s \in {"bridge", "national", "rsc"} THEN Str("No title")
    ELSE IF s = "drury_lane" THEN Str("Unknown Show")
    ELSE None

\* the text an extractor puts in front of an href that does not start with
\* "http"; Royal Court and the two Soho extractors put nothing
UrlPrefix(s) ==
    CASE s = "donmar" -> "https://www.donmarwarehouse.com"
      [] s = "marylebone" -> "https://www.marylebonetheatre.com"
      [] s = "bridge" -> "https://bridgetheatre.co.uk"
      [] s = "drury_lane" -> "https://lwtheatres.co.uk"
      [] s = "hampstead" -> "https://www.hampsteadtheatre.com"
      [] s = "national" -> "https://www.nationaltheatre.org.uk"
      [] s = "rsc" -> "https://www.rsc.org.uk"
      [] OTHER -> ""

\* the url of the record made from a container
show_url(s, card) ==
    LET href == IF card.href = None THEN "" ELSE card.href[2]
    IN  IF href = "" \/ startswith(href, "http") \/ UrlPrefix(s) = "" THEN href
        ELSE IF s \in {"donmar", "marylebone"} /\ ~startswith(href, "/")
             THEN UrlPrefix(s) \o "/" \o href
             ELSE UrlPrefix(s) \o href

\* The characters a date range is split on. Donmar, Drury Lane and National
\* write the character class with the three bytes of the en dash read as
\* three characters: it holds "-" and those three, none of which is the en
\* dash. Royal Court uses str.split("-").
SplitDashes(s) ==
    IF s \in {"bridge", "hampstead", "rsc", "soho_dean", "soho_walthamstow"}
    THEN {"-", EnDash}
    ELSE {"-"}

MonthAbbreviations ==
    <<"Jan", "Feb", "Mar", "Apr", "May", "Jun", "Jul", "Aug", "Sep", "Oct", "Nov",
      "Dec">>

\* Donmar: where \b(Jan|...|Dec)\b matches in s, ignoring case
MonthWordPositions(s) ==
    {i \in 1..(Len(s) - 2) :
        /\ WordBoundary(s, i)
        /\ WordBoundary(s, i + 3)
        /\ \E m \in 1..Len(MonthAbbreviations) :
              lower(SubSeq(s, i, i + 2)) = lower(MonthAbbreviations[m])}

\* Donmar: the month at position p of s with the k spaces and the four
\* digits that follow it, or the month alone
donmar_with_year(s, p, k) ==
    IF /\ k >= 1
       /\ p + k + 6 <= Len(s)
       /\ AllDigits(SubSeq(s, p + k + 3, p + k + 6))
       /\ WordBoundary(s, p + k + 7)
    THEN SubSeq(s, p, p + k + 6)
    ELSE SubSeq(s, p, p + 2)

donmar_group0(s, p) == donmar_with_year(s, p, RunOfSpaces(s, p + 3))

\* Donmar: group(0) of the leftmost match of \b(Jan|...|Dec)(\s+\d{4})?\b
donmar_month_year(s) == donmar_group0(s, Least(MonthWordPositions(s)))

\* Soho: any(month in s for month in ["Jan", ..., "Dec"])
HasMonth(s) == \E m \in 1..Len(MonthAbbreviations) : Contains(s, MonthAbbreviations[m])

\* Soho: the month at position p of s with the k spaces and the first two
\* to four of the n digits that follow it, or the month alone
soho_with_year(s, p, k, n) ==
    IF k >= 1 /\ n >= 2
    THEN SubSeq(s, p, p + k + 2 + (IF n > 4 THEN 4 ELSE n))
    ELSE SubSeq(s, p, p + 2)

soho_spaces_then(s, p, k) == soho_with_year(s, p, k, RunOfDigits(s, p + k + 3))
soho_group0(s, p) == soho_spaces_then(s, p, RunOfSpaces(s, p + 3))

\* Soho: group(0) of the leftmost match of (Jan|...|Dec)(\s+\d{2,4})?
soho_month_year(s) ==
    soho_group0(s, Least({i \in 1..(Len(s) - 2) :
                            \E m \in 1..Len(MonthAbbreviations) :
                                SubSeq(s, i, i + 2) = MonthAbbreviations[m]}))

\* RSC: re.sub(r"^(From|Until)\s+", "", dates_text, flags=re.IGNORECASE)
rsc_cleaned(s) ==
    IF \E w \in {"from", "until"} :
          startswith(lower(s), w) /\ RunOfSpaces(s, Len(w) + 1) >= 1
    THEN LET w == CHOOSE w \in {"from", "until"} : startswith(lower(s), w)
         IN  From(s, Len(w) + 1 + RunOfSpaces(s, Len(w) + 1))
    ELSE s

\* what the extractor makes of the stripped text of the date element
CleanedDateText(s, raw) ==
    IF raw = "" THEN ""
    ELSE IF s = "donmar" THEN strip(collapse_spaces(raw))
    ELSE IF s = "rsc" THEN rsc_cleaned(raw)
    ELSE raw

\* the text of the date element as the extractor goes on to use it, "" when
\* there is no date element
DateText(s, card) ==
    CleanedDateText(s, IF card.date = None THEN "" ELSE strip(card.date[2]))

\* Royal Court and the two Soho extractors split on the dash alone and take
\* the first two parts; the others split on the dash with the white space
\* around it and take a text for a range when it has exactly two parts
SplitsOnDashAlone(s) == s \in {"royal_court", "soho_dean", "soho_walthamstow"}

\* the parts the date text is split in (Marylebone does not split)
PartsOf(s, text) ==
    IF text = "" \/ s = "marylebone" THEN <<>>
    ELSE SplitOn(text, SplitDashes(s), ~SplitsOnDashAlone(s))

DateParts(s, card) == PartsOf(s, DateText(s, card))

IsRange(s, parts) ==
    IF SplitsOnDashAlone(s) THEN Len(parts) >= 2 ELSE Len(parts) = 2

\* the end date text, after the month of the start date text is added to it
EndText(s, start_text, end_text) ==
    IF /\ s = "donmar"
       /\ MonthWordPositions(start_text) # {}
       /\ MonthWordPositions(end_text) = {}
    THEN end_text \o " " \o donmar_month_year(start_text)
    ELSE IF /\ s \in {"soho_dean", "soho_walthamstow"}
            /\ HasMonth(start_text)
            /\ ~HasMonth(end_text)
         THEN end_text \o " " \o soho_month_year(start_text)
    ELSE end_text

\* the texts handed to parse_date_string for a container: none, the one
\* date, or the start and the end of a range
TextsOf(s, card, text, parts) ==
    IF card.date = None THEN <<>>
    ELSE IF s = "marylebone"
         THEN IF card.date2 = None THEN <<strip(card.date[2])>>
              ELSE <<strip(card.date[2]), strip(card.date2[2])>>
    ELSE IF IsRange(s, parts)
         THEN <<strip(parts[1]), EndText(s, strip(parts[1]), strip(parts[2]))>>
    ELSE <<text>>

TextsOfText(s, card, text) == TextsOf(s, card, text, PartsOf(s, text))
DateTexts(s, card) == TextsOfText(s, card, DateText(s, card))

\* one call of parse_date_string made for a container
DateOf(text, reads) == parse_date_string(Str(text), reads, reads)
NoDate == Outcome(None, "", "guard", 0)

\* start_date and end_date after the two calls; when the first raises the
\* second is not made
Both(a, b) ==
    [start |-> a.value,
     end |-> IF a.raised # "" THEN None ELSE b.value,
     raised |-> a.raised # "" \/ b.raised # ""]

\* start_date and end_date of a container. A single date is the end date too
\* for Royal Court and the two Soho extractors; Marylebone takes a start
\* date it could not read from the end date.
FirstDate(texts, card) ==
    IF Len(texts) >= 1 THEN DateOf(texts[1], card.reads_start) ELSE NoDate

SecondDate(s, texts, card, first) ==
    IF Len(texts) = 2 THEN DateOf(texts[2], card.reads_end)
    ELSE IF Len(texts) = 1 /\ SplitsOnDashAlone(s) THEN first
    ELSE NoDate

StartFromEnd(s, dates) ==
    IF s = "marylebone" /\ dates.start = None /\ dates.end # None
    THEN [dates EXCEPT !.start = dates.end]
    ELSE dates

AfterFirst(s, texts, card, first) ==
    StartFromEnd(s, Both(first, SecondDate(s, texts, card, first)))

DatesOfTexts(s, texts, card) == AfterFirst(s, texts, card, FirstDate(texts, card))
DatesOf(s, card) == DatesOfTexts(s, DateTexts(s, card), card)

\* a Donmar or Marylebone description shorter than this is dropped
MinDescription == 10

\* the description of the record made from a container
description_of(s, text) ==
    IF s = "bridge" THEN Str("")
    ELSE IF s = "drury_lane" THEN None
    ELSE IF s \in {"hampstead", "national", "rsc"}
         THEN IF text = None THEN Str("") ELSE text
    ELSE IF s \in {"donmar", "marylebone"}
         THEN IF Truthy(text) /\ Len(text[2]) < MinDescription THEN None
              ELSE text
    ELSE text

description(s, card) ==
    description_of(s, IF card.desc = None THEN None ELSE Str(strip(card.desc[2])))

\* the price_range of the record made from a container
price_range(s, card) ==
    IF s \in {"donmar", "marylebone", "soho_dean", "soho_walthamstow"}
    THEN IF card.price = None THEN None ELSE Str(strip(card.price[2]))
    ELSE IF s = "royal_court" /\ card.price # None THEN Str("Sold Out")
    ELSE None

\* the venue an extractor starts from
DefaultVenue(s) ==
    CASE s = "donmar" -> "Donmar Warehouse"
      [] s = "marylebone" -> "Marylebone Theatre"
      [] s = "bridge" -> "The Bridge Theatre"
      [] s = "hampstead" -> "Hampstead Theatre"
      [] s = "national" -> "National Theatre"
      [] s = "rsc" -> ""
      [] s = "royal_court" -> "Royal Court Theatre"
      [] s = "soho_dean" -> "Soho Theatre Dean Street"
      [] s = "soho_walthamstow" -> "Soho Theatre Walthamstow"
      [] s = "drury_lane" -> "Theatre Royal Drury Lane"

\* the venue of the record made from a container; venue is the value of the
\* extractor's variable of that name when the container is reached
venue_from(s, card, venue, specific_venue) ==
    IF s \in {"national", "drury_lane"}
    THEN IF card.location = None THEN DefaultVenue(s) ELSE specific_venue
    ELSE IF s = "rsc" THEN specific_venue
    ELSE IF s = "royal_court"
         THEN IF specific_venue = "" THEN DefaultVenue(s) ELSE specific_venue
    ELSE IF s = "hampstead"
         THEN IF Contains(upper(specific_venue), "DOWNSTAIRS")
              THEN "Hampstead Downstairs"
              ELSE DefaultVenue(s)
    ELSE IF s = "soho_walthamstow"
         THEN IF specific_venue # "" /\ Contains(specific_venue, "Walthamstow")
              THEN specific_venue
              ELSE venue
    ELSE DefaultVenue(s)

venue_of(s, card, venue) ==
    venue_from(s, card, venue,
               IF card.location = None THEN "" ELSE strip(card.location[2]))

Emit(show) == [kind |-> "show", show |-> show]
Skip == [kind |-> "skip", show |-> None]
Raised == [kind |-> "raised", show |-> None]

\* the body of the try block for one container
WithDates(s, card, venue, dates) ==
    IF s = "bridge" /\ ~card.wrap THEN Skip
    ELSE IF s = "rsc" /\ ~card.wrap THEN Raised
    ELSE IF card.kind \notin LocatedKinds(s) /\ TitlePlaceholder(s) = None
         THEN Skip
    ELSE IF dates.raised THEN Raised
    ELSE Emit([title |-> IF card.kind \in LocatedKinds(s)
                         THEN Str(get_text_strip(card.text))
                         ELSE TitlePlaceholder(s),
               venue |-> Str(venue_of(s, card, venue)),
               url |-> Str(show_url(s, card)),
               performance_start_date |-> dates.start,
               performance_end_date |-> dates.end,
               description |-> description(s, card),
               price_range |-> price_range(s, card),
               genre |-> None,
               theater_id |-> Str(s)])

ProcessCard(s, card, venue) == WithDates(s, card, venue, DatesOf(s, card))

RECURSIVE ExtractLoop_AbortOnRaise(_, _, _, _, _)
RECURSIVE ExtractLoop(_, _, _, _, _)

\* shows.append(show): the record and the container it was made from
Appended(acc, out, i) ==
    [acc EXCEPT !.shows = Append(@, out.show), !.source = Append(@, i)]

\* venue after the container: Soho Walthamstow has assigned it
VenueAfter(s, out, venue) ==
    IF s = "soho_walthamstow" THEN out.show.venue[2] ELSE venue

AfterCard_AbortOnRaise(s, cards, i, acc, venue, out) ==
    IF out.kind = "show"
    THEN ExtractLoop_AbortOnRaise(s, cards, i + 1, Appended(acc, out, i),
                                  VenueAfter(s, out, venue))
    ELSE IF out.kind = "raised" THEN acc
    ELSE ExtractLoop_AbortOnRaise(s, cards, i + 1, acc, venue)

\* the rest of the loop after the container i came to out
AfterCard(s, cards, i, acc, venue, out) ==
    IF out.kind = "show"
    THEN ExtractLoop(s, cards, i + 1, Appended(acc, out, i),
                     VenueAfter(s, out, venue))
    ELSE ExtractLoop(s, cards, i + 1, acc, venue)

ExtractLoop_AbortOnRaise(s, cards, i, acc, venue) ==
    IF i > Len(cards) THEN acc
    ELSE AfterCard_AbortOnRaise(s, cards, i, acc, venue,
                                ProcessCard(s, cards[i], venue))

\* for show_elem in show_elements: try: ... except Exception: logger.error(...)
\* source[j] is the position of the container shows[j] was made from; venue
\* is the extractor's variable of that name, which only Soho Walthamstow
\* assigns in the loop
ExtractLoop(s, cards, i, acc, venue) ==
    IF i > Len(cards) THEN acc
    ELSE AfterCard(s, cards, i, acc, venue, ProcessCard(s, cards[i], venue))

NoShows == [shows |-> <<>>, source |-> <<>>, raised |-> FALSE]

\* extract_<site>_shows(soup, theater_id, url)
extract_shows(s, doc) ==
    IF NeedsSection(s) /\ ~doc.found THEN NoShows
    ELSE ExtractLoop(s, doc.cards, 1, NoShows, DefaultVenue(s))

\* BeautifulSoup(html_content, 'lxml'): the document a page source describes
Html(doc) == <<"html", doc>>
BeautifulSoup(html_content) == html_content[2]

THEATER_PARSERS_get_Donmar(theater_id) ==
    IF theater_id \in Sites THEN theater_id ELSE "donmar"

\* THEATER_PARSERS.get(theater_id, extract_show_details): the registered
\* extractor, "generic" standing for extract_show_details
THEATER_PARSERS_get(theater_id) ==
    IF theater_id \in Sites THEN theater_id ELSE "generic"

\* parse_theater_page(html_content, theater_id, url)
parse_theater_page(html_content, theater_id) ==
    IF ~Truthy(html_content) THEN NoShows
    ELSE IF THEATER_PARSERS_get(theater_id) = "generic" THEN NoShows
    ELSE extract_shows(THEATER_PARSERS_get(theater_id), BeautifulSoup(html_content))

-----------------------------------------------------------------------------
(* Vocabulary of the claims about compare_snapshots *)

KeysOf(shows) == {Key(shows[i]) : i \in 1..Len(shows)}

\* the last record of shows that has key k
LastWith(shows, k) ==
    shows[CHOOSE i \in 1..Len(shows) :
            /\ Key(shows[i]) = k
            /\ \A j \in (i + 1)..Len(shows) : Key(shows[j]) # k]

\* the first position of key k in shows
FirstPos(shows, k) ==
    CHOOSE i \in 1..Len(shows) :
        /\ Key(shows[i]) = k
        /\ \A j \in 1..(i - 1) : Key(shows[j]) # k

NoDuplicateKeys(shows) ==
    \A i, j \in 1..Len(shows) : Key(shows[i]) = Key(shows[j]) => i = j

\* how many entries of a report list carry key k
CountKey(list, k) == Cardinality({i \in 1..Len(list) : Key(list[i]) = k})
CountUpdated(list, k) == Cardinality({i \in 1..Len(list) : Key(list[i].current) = k})

\* two records agree on the four tracked fields (plain equality of values)
SameTracked(a, b) ==
    /\ a.performance_start_date = b.performance_start_date
    /\ a.performance_end_date = b.performance_end_date
    /\ a.price_range = b.price_range
    /\ a.description = b.description

\* the keys of a list are met in the order in which they first occur in source
FollowsOrderOf(keys, source) ==
    \A i, j \in 1..Len(keys) :
        i < j => FirstPos(source, keys[i]) < FirstPos(source, keys[j])

KeyList(list) == [i \in 1..Len(list) |-> Key(list[i])]
UpdatedKeyList(list) == [i \in 1..Len(list) |-> Key(list[i].current)]

\* a record with every untracked field set to one fixed value
Scrub(show) ==
    [show EXCEPT !.genre = None, !.url = Str(""), !.theater_id = Str(""),
                 !.member_sale_date = None, !.general_sale_date = None,
                 !.last_updated = Datetime("2025-02-01")]
ScrubAll(shows) == [i \in 1..Len(shows) |-> Scrub(shows[i])]

\* which key landed in which category, in order
Categories(r) ==
    [new_shows |-> KeyList(r.new_shows),
     updated_shows |-> UpdatedKeyList(r.updated_shows),
     unchanged_shows |-> KeyList(r.unchanged_shows),
     removed_shows |-> KeyList(r.removed_shows)]

-----------------------------------------------------------------------------
(* C1: a key present in both inputs lands in updated_shows, as the pair of *)
(* the full current and the full previous record, when one of the four     *)
(* tracked fields differs between the two records, and in unchanged_shows, *)
(* as the current record, when all four are equal: in exactly one of the   *)
(* two, and in no other list.                                              *)
C1_UpdatedOrUnchanged ==
    pc = "compared" =>
        \A k \in KeysOf(current) \cap KeysOf(previous) :
            LET c == LastWith(current, k)
                p == LastWith(previous, k)
            IN  /\ CountUpdated(report.updated_shows, k)
                     + CountKey(report.unchanged_shows, k) = 1
                /\ CountKey(report.new_shows, k) = 0
                /\ CountKey(report.removed_shows, k) = 0
                /\ ~SameTracked(c, p) =>
                     \E i \in 1..Len(report.updated_shows) :
                         report.updated_shows[i] = [current |-> c, previous |-> p]
                /\ SameTracked(c, p) =>
                     \E i \in 1..Len(report.unchanged_shows) :
                         report.unchanged_shows[i] = c

\* one key updated because only its description differs, another unchanged
C1_Witness ==
    /\ pc = "compared"
    /\ \E i \in 1..Len(report.updated_shows) :
          /\ report.updated_shows[i].current.description
                # report.updated_shows[i].previous.description
          /\ report.updated_shows[i].current.price_range
                = report.updated_shows[i].previous.price_range
          /\ report.updated_shows[i].current.performance_start_date
                = report.updated_shows[i].previous.performance_start_date
          /\ report.updated_shows[i].current.performance_end_date
                = report.updated_shows[i].previous.performance_end_date
    /\ Len(report.unchanged_shows) = 1

(* C2 as stated: new_shows holds exactly the records of current whose key  *)
(* does not occur in previous, and removed_shows exactly the records of    *)
(* previous whose key does not occur in current.                           *)
C2_AsStated ==
    pc = "compared" =>
        /\ {report.new_shows[i] : i \in 1..Len(report.new_shows)}
             = {current[i] : i \in {j \in 1..Len(current) :
                                      Key(current[j]) \notin KeysOf(previous)}}
        /\ {report.removed_shows[i] : i \in 1..Len(report.removed_shows)}
             = {previous[i] : i \in {j \in 1..Len(previous) :
                                      Key(previous[j]) \notin KeysOf(current)}}

(* C2 amended: new_shows holds exactly, for each key of current that does  *)
(* not occur in previous, the last record of current with that key, once;  *)
(* removed_shows holds exactly, for each key of previous that does not     *)
(* occur in current, the last record of previous with that key, once.      *)
C2_NewAndRemoved ==
    pc = "compared" =>
        /\ {report.new_shows[i] : i \in 1..Len(report.new_shows)}
             = {LastWith(current, k) : k \in KeysOf(current) \ KeysOf(previous)}
        /\ Len(report.new_shows) = Cardinality(KeysOf(current) \ KeysOf(previous))
        /\ {report.removed_shows[i] : i \in 1..Len(report.removed_shows)}
             = {LastWith(previous, k) : k \in KeysOf(previous) \ KeysOf(current)}
        /\ Len(report.removed_shows)
             = Cardinality(KeysOf(previous) \ KeysOf(current))

\* a comparison that reports a new show, a removed show and a key in both
C2_Witness ==
    /\ pc = "compared"
    /\ Len(report.new_shows) = 1
    /\ Len(report.removed_shows) = 1
    /\ Len(report.updated_shows) + Len(report.unchanged_shows) = 1

(* C3: the category of every key is the one the differ gives when every    *)
(* untracked field (genre, url, theater_id, member_sale_date,              *)
(* general_sale_date, last_updated) of every record is overwritten with a  *)
(* fixed value, so two runs whose inputs differ only there classify alike; *)
(* a key whose records differ only in untracked fields is unchanged.       *)
C3_UntrackedIgnored ==
    pc = "compared" =>
        /\ Categories(report)
             = Categories(compare_snapshots(ScrubAll(current), ScrubAll(previous)))
        /\ \A k \in KeysOf(current) \cap KeysOf(previous) :
              SameTracked(LastWith(current, k), LastWith(previous, k))
                 => CountKey(report.unchanged_shows, k) = 1

\* a key whose current and previous records differ in genre and url only
C3_Witness ==
    /\ pc = "compared"
    /\ \E k \in KeysOf(current) \cap KeysOf(previous) :
          /\ LastWith(current, k).genre # LastWith(previous, k).genre
          /\ LastWith(current, k).url # LastWith(previous, k).url
          /\ SameTracked(LastWith(current, k), LastWith(previous, k))
          /\ CountKey(report.unchanged_shows, k) = 1

(* C4 as stated: for any non-empty current and an empty previous,          *)
(* new_shows equals current and the three other lists are empty.           *)
C4_AsStated ==
    (pc = "compared" /\ current # <<>> /\ previous = <<>>) =>
        /\ report.new_shows = current
        /\ report.updated_shows = <<>>
        /\ report.removed_shows = <<>>
        /\ report.unchanged_shows = <<>>

(* C4 amended: for any non-empty current in which no (title, venue) key    *)
(* occurs twice and an empty previous, new_shows equals current (same      *)
(* records, order and length) and the three other lists are empty.         *)
C4_EmptyPrevious ==
    (pc = "compared" /\ current # <<>> /\ previous = <<>>
        /\ NoDuplicateKeys(current)) =>
        /\ report.new_shows = current
        /\ report.updated_shows = <<>>
        /\ report.removed_shows = <<>>
        /\ report.unchanged_shows = <<>>

\* three different shows compared against nothing
C4_Witness ==
    /\ pc = "compared"
    /\ previous = <<>>
    /\ Len(current) = 3
    /\ NoDuplicateKeys(current)
    /\ Len(report.new_shows) = 3

(* C5: with no key duplicated in either input, new_shows, updated_shows    *)
(* and unchanged_shows list their shows in the order of current, and       *)
(* removed_shows in the order of previous.                                 *)
C5_OrderPreserved ==
    (pc = "compared" /\ NoDuplicateKeys(current) /\ NoDuplicateKeys(previous)) =>
        /\ FollowsOrderOf(KeyList(report.new_shows), current)
        /\ FollowsOrderOf(UpdatedKeyList(report.updated_shows), current)
        /\ FollowsOrderOf(KeyList(report.unchanged_shows), current)
        /\ FollowsOrderOf(KeyList(report.removed_shows), previous)

\* two unchanged shows that previous lists in the opposite order
C5_Witness ==
    /\ pc = "compared"
    /\ NoDuplicateKeys(current) /\ NoDuplicateKeys(previous)
    /\ Len(report.unchanged_shows) = 2
    /\ FirstPos(previous, Key(report.unchanged_shows[1]))
         > FirstPos(previous, Key(report.unchanged_shows[2]))

(* C6: when records of one input share a key, the last of them is the one  *)
(* classified and emitted, and the key has exactly one entry in the whole  *)
(* report.                                                                 *)
C6_LastWriteWins ==
    pc = "compared" =>
        /\ \A k \in KeysOf(current) \cup KeysOf(previous) :
              CountKey(report.new_shows, k) + CountUpdated(report.updated_shows, k)
                + CountKey(report.unchanged_shows, k)
                + CountKey(report.removed_shows, k) = 1
        /\ \A i \in 1..Len(report.new_shows) :
              report.new_shows[i] = LastWith(current, Key(report.new_shows[i]))
        /\ \A i \in 1..Len(report.unchanged_shows) :
              LET u == report.unchanged_shows[i]
              IN  /\ u = LastWith(current, Key(u))
                  /\ SameTracked(u, LastWith(previous, Key(u)))
        /\ \A i \in 1..Len(report.updated_shows) :
              LET u == report.updated_shows[i]
              IN  /\ u.current = LastWith(current, Key(u.current))
                  /\ u.previous = LastWith(previous, Key(u.current))
                  /\ ~SameTracked(u.current, u.previous)
        /\ \A i \in 1..Len(report.removed_shows) :
              report.removed_shows[i]
                 = LastWith(previous, Key(report.removed_shows[i]))

\* current holds a key twice, first equal to previous and last changed
C6_Witness ==
    /\ pc = "compared"
    /\ Len(current) = 2
    /\ Key(current[1]) = Key(current[2])
    /\ Len(previous) = 1
    /\ SameTracked(current[1], previous[1])
    /\ ~SameTracked(current[2], previous[1])
    /\ Len(report.updated_shows) = 1

-----------------------------------------------------------------------------
(* The parts of the state a specification does not use stay as they start *)

storeVars == <<files, clock, today, runs, previous_filename, loaded>>
extractVars == <<site, page, result>>
parseVars == <<given, strict_answer, fuzzy_answer, returned>>
fetchVars == <<max_retries, attempt, requests, fetched>>
mainVars == <<theaters, no_email, config_issues, scrapes, all_shows, errors,
              attempted, email_config, smtp_raises, smtp_log, notified, status>>

StoreIdle ==
    /\ files = <<>>
    /\ clock = 0
    /\ today = 0
    /\ runs = 0
    /\ previous_filename = None
    /\ loaded = <<>>

ExtractIdle ==
    /\ site = "none"
    /\ page = <<>>
    /\ result = <<>>

ParseIdle ==
    /\ given = None
    /\ strict_answer = ParserRaises("ValueError")
    /\ fuzzy_answer = ParserRaises("ValueError")
    /\ returned = NoDate

FetchIdle ==
    /\ max_retries = 0
    /\ attempt = 0
    /\ requests = <<>>
    /\ fetched = None

MainIdle ==
    /\ theaters = None
    /\ no_email = FALSE
    /\ config_issues = <<>>
    /\ scrapes = <<>>
    /\ all_shows = <<>>
    /\ errors = <<>>
    /\ attempted = <<>>
    /\ email_config = <<>>
    /\ smtp_raises = <<"", "">>
    /\ smtp_log = <<>>
    /\ notified = None
    /\ status = None

-----------------------------------------------------------------------------
(* Spec: compare_snapshots applied to every pair of bounded inputs *)

Init ==
    /\ pc = "input"
    /\ MainIdle
    /\ current \in SeqsUpTo(ShowPool, MaxShows)
    /\ previous \in SeqsUpTo(ShowPool, MaxShows - Len(current))
    /\ report = NoReport
    /\ StoreIdle
    /\ ExtractIdle
    /\ ParseIdle
    /\ FetchIdle

Compare ==
    /\ pc = "input"
    /\ report' = compare_snapshots(current, previous)
    /\ pc' = "compared"
    /\ UNCHANGED <<mainVars, current, previous, storeVars, extractVars, parseVars,
                   fetchVars>>

Next == Compare

Spec == Init /\ [][Next]_vars

-----------------------------------------------------------------------------
(* SpecRoundTrip: save_snapshot, then load_snapshot under the same name *)

\* a show with every optional field present
ShowFull ==
    [ShowA_untracked EXCEPT !.price_range = Str("GBP 20-50"),
                            !.description = Str("An exciting show")]

\* a snapshot written by one save_snapshot holds at most MaxSaved records
MaxSaved == 2

InitRoundTrip ==
    /\ pc = "input"
    /\ MainIdle
    /\ current \in SeqsUpTo(ShowPool \cup {ShowFull}, MaxSaved)
    /\ previous = <<>>
    /\ report = NoReport
    /\ StoreIdle
    /\ ExtractIdle
    /\ ParseIdle
    /\ FetchIdle

Save ==
    /\ pc = "input"
    /\ files' = save_snapshot(files, current, "test_load.csv", clock + 1)
    /\ clock' = clock + 1
    /\ pc' = "saved"
    /\ UNCHANGED <<mainVars, current, previous, report, today, runs, previous_filename,
                   loaded, extractVars, parseVars,
                   fetchVars>>

Load ==
    /\ pc = "saved"
    /\ loaded' = load_snapshot(files, "test_load.csv")
    /\ pc' = "loaded"
    /\ UNCHANGED <<mainVars, current, previous, report, files, clock, today, runs,
                   previous_filename, extractVars, parseVars,
                   fetchVars>>

NextRoundTrip == Save \/ Load

SpecRoundTrip == InitRoundTrip /\ [][NextRoundTrip]_vars

(* C7: load_snapshot after save_snapshot under the same name returns as    *)
(* many records, in the same order, each equal to the original in title,   *)
(* venue, performance_start_date, performance_end_date, price_range and    *)
(* description, also where optional fields are absent.                     *)
C7_RoundTrip ==
    pc = "loaded" =>
        /\ Len(loaded) = Len(current)
        /\ \A i \in 1..Len(loaded) :
              /\ loaded[i].title = current[i].title
              /\ loaded[i].venue = current[i].venue
              /\ loaded[i].performance_start_date = current[i].performance_start_date
              /\ loaded[i].performance_end_date = current[i].performance_end_date
              /\ loaded[i].price_range = current[i].price_range
              /\ loaded[i].description = current[i].description

-----------------------------------------------------------------------------
(* SpecDaily: runs of generate_daily_snapshot over several days *)

\* the record collections a run is handed
Catalogues == {<<>>, <<ShowA>>, <<ShowA_price, ShowB_desc>>, <<ShowB, ShowA, ShowA_desc>>}

\* the days and the runs the model follows
MaxDays == 3
MaxRuns == 4

InitDaily ==
    /\ pc = "idle"
    /\ MainIdle
    /\ current = <<>>
    /\ previous = <<>>
    /\ report = NoReport
    /\ files = <<>>
    /\ clock = 0
    /\ today = 1
    /\ runs = 0
    /\ previous_filename = None
    /\ loaded = <<>>
    /\ ExtractIdle
    /\ ParseIdle
    /\ FetchIdle

\* midnight passes
NextDay ==
    /\ today < MaxDays
    /\ today' = today + 1
    /\ pc' = "idle"
    /\ UNCHANGED <<mainVars, current, previous, report, files, clock, runs,
                   previous_filename, loaded, extractVars, parseVars,
                   fetchVars>>

RunDaily ==
    /\ runs < MaxRuns
    /\ \E shows \in Catalogues :
          LET out == generate_daily_snapshot(files, shows, today, clock + 1)
          IN  /\ current' = shows
              /\ files' = out.files
              /\ previous_filename' = out.previous_filename
              /\ previous' = out.previous_shows
              /\ loaded' = out.previous_shows
              /\ report' = out.report
    /\ clock' = clock + 1
    /\ runs' = runs + 1
    /\ pc' = "ran"
    /\ UNCHANGED <<mainVars, today, extractVars, parseVars,
                   fetchVars>>

NextDaily == NextDay \/ RunDaily

SpecDaily == InitDaily /\ [][NextDaily]_vars

\* the stored snapshots other than today's
OtherSnapshots == DOMAIN files \ {SnapshotName(today)}

(* C8: after every run, also a repeated run on one day, the snapshot used  *)
(* as previous is the most recently written stored snapshot whose name is  *)
(* not today's (none when there is no such snapshot); it is never the      *)
(* snapshot the run has just written.                                      *)
C8_PreviousIsLatestOther ==
    pc = "ran" =>
        /\ previous_filename # Str(SnapshotName(today))
        /\ IF OtherSnapshots = {}
           THEN previous_filename = None
           ELSE /\ IsStr(previous_filename)
                /\ previous_filename[2] \in OtherSnapshots
                /\ \A n \in OtherSnapshots :
                      files[n].mtime <= files[previous_filename[2]].mtime

\* a second run on the third day, two older snapshots in the directory
C8_Witness ==
    /\ pc = "ran"
    /\ today = 3
    /\ runs = 4
    /\ Cardinality(OtherSnapshots) = 2
    /\ files[SnapshotName(today)].mtime = 4
    /\ previous_filename = Str(SnapshotName(2))

-----------------------------------------------------------------------------
(* SpecExtract: every site extractor applied to every bounded page *)

InitExtract ==
    /\ pc = "input"
    /\ MainIdle
    /\ current = <<>>
    /\ previous = <<>>
    /\ report = NoReport
    /\ StoreIdle
    /\ ParseIdle
    /\ FetchIdle
    /\ site \in Sites
    /\ page \in Pages
    /\ result = NoShows

Extract ==
    /\ pc = "input"
    /\ result' = extract_shows(site, page)
    /\ pc' = "extracted"
    /\ UNCHANGED <<mainVars, current, previous, report, storeVars, site, page, parseVars,
                   fetchVars>>

NextExtract == Extract

SpecExtract == InitExtract /\ [][NextExtract]_vars

(* C9: for every site extractor, a container in which no title can be      *)
(* located (no heading, no title-class element) produces no show record,   *)
(* and the extractor does not raise.                                       *)
C9_NoTitleNoRecord ==
    pc = "extracted" =>
        /\ ~result.raised
        /\ \A j \in 1..Len(result.shows) :
              page.cards[result.source[j]].kind # "none"

(* C10: every show record an extractor returns has a non-empty title; a    *)
(* container whose title element carries no usable text is skipped.        *)
C10_NonEmptyTitle ==
    pc = "extracted" =>
        \A j \in 1..Len(result.shows) : result.shows[j].title # Str("")

-----------------------------------------------------------------------------
(* SpecFields: every site extractor applied to pages whose containers      *)
(* differ in their link, dates, description, price and location            *)

Details(href, date, date2, reads_start, reads_end, desc, price, location) ==
    [href |-> href, date |-> date, date2 |-> date2, reads_start |-> reads_start,
     reads_end |-> reads_end, desc |-> desc, price |-> price,
     location |-> location]

Titled(text) == [wrap |-> TRUE, kind |-> "site", text |-> text]

\* The containers of SpecFields, in this order: a range with the month on its
\* end side, a container with a title only, a single date, a range with the
\* month on its start side, a date text with a number the date library
\* overflows on, a container without the element the title is reached
\* through, a range written with an en dash, and two date divs of which the
\* first is no date.
FieldCards ==
    {Container(Titled("Hamlet"),
        Details(Str("/show/1"), Str("1 - 20 Mar 2023"), None,
                ParsedDate(2023, 3, 1), ParsedDate(2023, 3, 20),
                Str("A new version of the play"), Str("From GBP 20"), None)),
     Container(Titled("Macbeth"), NoDetails),
     Container(Titled("Macbeth"),
        Details(Str("show/2"), Str("12 June 2025"), None,
                ParsedDate(2025, 6, 12), ParserRaises("ValueError"),
                None, None, Str("Soho Theatre Walthamstow Studio"))),
     Container(Titled("Hamlet"),
        Details(Str("https://tickets.example.org/3"), Str("3 Mar  - 5"), None,
                ParsedDate(2025, 3, 3), ParsedDate(2025, 3, 5),
                Str("Short"), None, Str("Downstairs"))),
     Container(Titled("Othello"),
        Details(Str("/show/5"), Str("99999999999999999999"), None,
                ParserRaises("OverflowError"), ParserRaises("OverflowError"),
                Str("A tragedy in five acts"), None,
                Str("Walthamstow Main House"))),
     Container([wrap |-> FALSE, kind |-> "site", text |-> "Hamlet"],
        Details(Str("/show/6"), Str("1 June 2025"), None,
                ParsedDate(2025, 6, 1), ParserRaises("ValueError"),
                None, Str("GBP 15"), None)),
     Container(Titled("Hamlet"),
        Details(None, Str("1 Mar ~ 20 Apr 2023"), None,
                ParsedDate(2023, 3, 1), ParsedDate(2023, 4, 20),
                None, None, None)),
     Container(Titled("Macbeth"),
        Details(Str("/show/8"), Str("To be announced"), Str("20 June 2025"),
                ParserRaises("ValueError"), ParsedDate(2025, 6, 20),
                None, None, None))}

\* a page of SpecFields has the enclosing section and up to MaxFieldCards
\* containers
MaxFieldCards == 2
FieldPages == [found : {TRUE}, cards : SeqsUpTo(FieldCards, MaxFieldCards)]

InitFields ==
    /\ pc = "input"
    /\ MainIdle
    /\ current = <<>>
    /\ previous = <<>>
    /\ report = NoReport
    /\ StoreIdle
    /\ ParseIdle
    /\ FetchIdle
    /\ site \in Sites
    /\ page \in FieldPages
    /\ result = NoShows

SpecFields == InitFields /\ [][NextExtract]_vars

\* the container the j-th record of the result was made from
SourceCard(j) == page.cards[result.source[j]]

\* the scheme and host of a site's page in THEATER_URLS
Origin(s) ==
    CASE s = "donmar" -> "https://www.donmarwarehouse.com"
      [] s = "bridge" -> "https://bridgetheatre.co.uk"
      [] s = "national" -> "https://www.nationaltheatre.org.uk"
      [] s = "hampstead" -> "https://www.hampsteadtheatre.com"
      [] s = "marylebone" -> "https://www.marylebonetheatre.com"
      [] s = "soho_dean" -> "https://sohotheatre.com"
      [] s = "soho_walthamstow" -> "https://sohotheatre.com"
      [] s = "rsc" -> "https://www.rsc.org.uk"
      [] s = "royal_court" -> "https://royalcourttheatre.com"
      [] s = "drury_lane" -> "https://lwtheatres.co.uk"

\* the path of a site's page in THEATER_URLS
PagePath(s) ==
    CASE s = "donmar" -> "/whats-on"
      [] s = "bridge" -> "/performances/"
      [] s = "national" -> "/whats-on/"
      [] s = "hampstead" -> "/whats-on/main-stage/"
      [] s = "marylebone" -> "/#Whats-On"
      [] s = "soho_dean" -> "/dean-street/"
      [] s = "soho_walthamstow" -> "/walthamstow/"
      [] s = "rsc" -> "/whats-on/in/london/?from=ql"
      [] s = "royal_court" -> "/whats-on/"
      [] s = "drury_lane" -> "/theatres/theatre-royal-drury-lane/whats-on/"

(* C11: for every site extractor, a container whose anchor has a relative  *)
(* href (such as /show/1) gives a record whose url is the site's origin    *)
(* followed by that path, and no record carries a bare relative url (one   *)
(* that is not empty and does not start with "http").                      *)
C11_RelativeUrlResolved ==
    pc = "extracted" =>
        \A j \in 1..Len(result.shows) :
            /\ (SourceCard(j).href # None /\ startswith(SourceCard(j).href[2], "/"))
                  => result.shows[j].url = Str(Origin(site) \o SourceCard(j).href[2])
            /\ result.shows[j].url = Str("")
                  \/ startswith(result.shows[j].url[2], "http")

\* processing the container raises inside the try block
Fails(card) == ProcessCard(site, card, DefaultVenue(site)).kind = "raised"
Survives(card) == ~Fails(card)

(* C12: when processing a container raises, that container gives no        *)
(* record, the extractor does not raise, and the records returned are      *)
(* exactly those the extractor returns for the page without the failing    *)
(* containers.                                                             *)
C12_FailureIsolation ==
    pc = "extracted" =>
        /\ ~result.raised
        /\ \A j \in 1..Len(result.shows) : Survives(SourceCard(j))
        /\ result.shows
             = extract_shows(site, [page EXCEPT
                                      !.cards = SelectSeq(page.cards, Survives)]).shows

\* National: the first of two cards raises in the date library, the second
\* gives the only record
C12_Witness ==
    /\ pc = "extracted"
    /\ site = "national"
    /\ Len(page.cards) = 2
    /\ Fails(page.cards[1])
    /\ page.cards[1].reads_start.kind = "OverflowError"
    /\ result.source = <<2>>
    /\ result.shows[1].title = Str("Hamlet")

-----------------------------------------------------------------------------
(* SpecHeadings: every site extractor applied to pages that have h1 to h5  *)
(* headings beside their containers                                        *)

\* the texts of the h1 to h5 headings of a page
HeadingLists == {<<>>, <<"Hamlet">>, <<"Main Menu", "Macbeth">>}

\* a container with a title only, and one in which no title can be located
HeadingCards ==
    {Container(Titled("Othello"), NoDetails),
     Container([wrap |-> TRUE, kind |-> "none", text |-> ""], NoDetails)}

MaxHeadingCards == 1
HeadingPages ==
    [found : BOOLEAN, cards : SeqsUpTo(HeadingCards, MaxHeadingCards),
     headings : HeadingLists]

InitHeadings ==
    /\ pc = "input"
    /\ MainIdle
    /\ current = <<>>
    /\ previous = <<>>
    /\ report = NoReport
    /\ StoreIdle
    /\ ParseIdle
    /\ FetchIdle
    /\ site \in Sites
    /\ page \in HeadingPages
    /\ result = NoShows

SpecHeadings == InitHeadings /\ [][NextExtract]_vars

\* a heading the fallback of the claim takes for a show title
Eligible(heading) ==
    /\ strip(heading) # ""
    /\ \A word \in {"menu", "navigation", "home", "about", "contact"} :
          ~Contains(lower(heading), word)

\* no container of the page gives a record
NoContainerRecord ==
    \/ NeedsSection(site) /\ ~page.found
    \/ \A i \in 1..Len(page.cards) :
          ProcessCard(site, page.cards[i], DefaultVenue(site)).kind # "show"

(* C13: when no container of the page gives a record, the extractor        *)
(* returns one record for each page heading that contains none of menu,    *)
(* navigation, home, about, contact, in page order, with the heading as    *)
(* title and the page url as url; it returns nothing only when there is no *)
(* such heading.                                                           *)
C13_HeadingFallback ==
    (pc = "extracted" /\ NoContainerRecord) =>
        /\ [j \in 1..Len(result.shows) |-> result.shows[j].title[2]]
              = SelectSeq(page.headings, Eligible)
        /\ \A j \in 1..Len(result.shows) :
              result.shows[j].url = Str(Origin(site) \o PagePath(site))

(* C14: in every record, an optional field whose source element the        *)
(* container does not hold is None: the description, the price, the genre, *)
(* both dates when there is no date element, and the end date when the     *)
(* date element holds a single date (it is not the start date copied).     *)
C14_AbsentIsNone ==
    pc = "extracted" =>
        \A j \in 1..Len(result.shows) :
            /\ SourceCard(j).desc = None => result.shows[j].description = None
            /\ SourceCard(j).price = None => result.shows[j].price_range = None
            /\ result.shows[j].genre = None
            /\ SourceCard(j).date = None =>
                  /\ result.shows[j].performance_start_date = None
                  /\ result.shows[j].performance_end_date = None
            /\ (/\ SourceCard(j).date # None
                /\ SourceCard(j).date2 = None
                /\ Len(SplitOn(SourceCard(j).date[2], {"-", EnDash}, TRUE)) = 1)
                  => result.shows[j].performance_end_date = None

\* the text names a month (3-letter or full name, in any case)
CarriesMonth(text) ==
    \E i \in 1..Len(month_names) : Contains(lower(text), month_names[i])

(* C15: when the date text of a container splits in two parts of which     *)
(* exactly one carries a month name, both texts handed to                  *)
(* parse_date_string carry a month name, whichever side had it; so for     *)
(* '1 - 20 Mar 2023', read correctly by the date library, the record's     *)
(* start date is 1 March 2023.                                             *)
C15_MonthPropagated ==
    pc = "extracted" =>
        /\ \A i \in 1..Len(page.cards) :
              (/\ Len(DateParts(site, page.cards[i])) = 2
               /\ CarriesMonth(DateParts(site, page.cards[i])[1])
                     # CarriesMonth(DateParts(site, page.cards[i])[2]))
                 => /\ Len(DateTexts(site, page.cards[i])) = 2
                    /\ CarriesMonth(DateTexts(site, page.cards[i])[1])
                    /\ CarriesMonth(DateTexts(site, page.cards[i])[2])
        /\ \A j \in 1..Len(result.shows) :
              (/\ site # "marylebone"
               /\ SourceCard(j).date = Str("1 - 20 Mar 2023")
               /\ SourceCard(j).reads_start = ParsedDate(2023, 3, 1))
                 => result.shows[j].performance_start_date = Datetime("2023-03-01")

-----------------------------------------------------------------------------
(* SpecDispatch: parse_theater_page applied to every identifier and page   *)

\* the registered identifiers and one that is not registered
TheaterIds == Sites \cup {"unknown_theater"}

InitDispatch ==
    /\ pc = "input"
    /\ MainIdle
    /\ current = <<>>
    /\ previous = <<>>
    /\ report = NoReport
    /\ StoreIdle
    /\ ParseIdle
    /\ FetchIdle
    /\ site \in TheaterIds
    /\ page \in {None, Str("")} \cup {Html(doc) : doc \in FieldPages}
    /\ result = NoShows

Dispatch ==
    /\ pc = "input"
    /\ result' = parse_theater_page(page, site)
    /\ pc' = "dispatched"
    /\ UNCHANGED <<mainVars, current, previous, report, storeVars, site, page, parseVars,
                   fetchVars>>

NextDispatch == Dispatch

SpecDispatch == InitDispatch /\ [][NextDispatch]_vars

(* C16: parse_theater_page does not raise; it returns the empty list when  *)
(* html_content is empty (None or "") and when theater_id is none of the   *)
(* ten registered identifiers; for a registered identifier and a non-empty *)
(* page it returns exactly what that site's extractor returns for the      *)
(* parsed document.                                                        *)
C16_Dispatcher ==
    pc = "dispatched" =>
        /\ ~result.raised
        /\ (page \in {None, Str("")} \/ site \notin Sites) => result.shows = <<>>
        /\ (page \notin {None, Str("")} /\ site \in Sites)
              => result = extract_shows(site, page[2])

\* an unregistered identifier on a page from which the Donmar extractor
\* would return records
C16_Witness ==
    /\ pc = "dispatched"
    /\ site = "unknown_theater"
    /\ page \notin {None, Str("")}
    /\ extract_shows("donmar", page[2]).shows # <<>>
    /\ result.shows = <<>>

-----------------------------------------------------------------------------
(* SpecParse: parse_date_string applied to every bounded argument, under   *)
(* every answer of the date library                                        *)

FullMonthNames ==
    <<"January", "February", "March", "April", "May", "June", "July", "August",
      "September", "October", "November", "December">>

\* a date written as 'D Month YYYY'
DMonthYYYY(d, m, y) == ToString(d) \o " " \o FullMonthNames[m] \o " " \o ToString(y)

Days == {1, 20}
WrittenYears == {1999, 2025}
AnsweredYears == {1999, 2024, 2025}

\* the arguments: None, an int, "", texts the guards are about, texts the
\* validation is about, and every 'D Month YYYY' of Days and WrittenYears
DateStrings ==
    {None, <<"int", "2025">>, Str("")}
    \cup {Str(t) : t \in {"2025", " 2025 ", "  1   6 ", "Mar1", "1 May", "TBC",
                          "01/06/2025", "1.6.25", "2025-06-01", "June 1, 2025",
                          "Not a date", "1 DECEMBER 2025", "Market day 2025",
                          "15 Mar (see page 2024)", "15 Mar 2024 until 2025",
                          "12 Jan to 15 Mar", "1 June 20255",
                          "12 Jan to 15 Mar 2025"}}
    \cup {Str(DMonthYYYY(d, m, y)) : d \in Days, m \in 1..12, y \in WrittenYears}

\* what the library may answer to parse(clean_string, fuzzy=True)
FuzzyAnswers ==
    {ParsedDate(y, m, d) : y \in AnsweredYears, m \in 1..12, d \in Days}
    \cup {ParserRaises("ValueError"), ParserRaises("OverflowError")}

\* what the library may answer to parse(clean_string, dayfirst=True)
StrictAnswers ==
    {ParsedDate(2025, 6, 1), ParserRaises("ValueError"),
     ParserRaises("OverflowError")}

InitParse ==
    /\ pc = "input"
    /\ MainIdle
    /\ current = <<>>
    /\ previous = <<>>
    /\ report = NoReport
    /\ StoreIdle
    /\ ExtractIdle
    /\ FetchIdle
    /\ given \in DateStrings
    /\ strict_answer \in StrictAnswers
    /\ fuzzy_answer \in FuzzyAnswers
    /\ returned = NoDate

Parse ==
    /\ pc = "input"
    /\ returned' = parse_date_string(given, strict_answer, fuzzy_answer)
    /\ pc' = "parsed"
    /\ UNCHANGED <<mainVars, current, previous, report, storeVars, extractVars,
                   given, strict_answer, fuzzy_answer, fetchVars>>

NextParse == Parse

SpecParse == InitParse /\ [][NextParse]_vars

\* the text after re.sub(r'\s+', ' ', ...).strip()
Normalised(v) == strip(collapse_spaces(v[2]))

\* the argument is one the guards are about
Guarded(v) ==
    IF v = None \/ ~IsStr(v) \/ v = Str("") THEN TRUE
    ELSE Len(Normalised(v)) < 5
            \/ (Len(Normalised(v)) = 4 /\ AllDigits(Normalised(v)))

(* C17: for None, a non-string, the empty string, a text shorter than 5    *)
(* characters after white-space normalisation and a text of exactly four   *)
(* digits, parse_date_string returns None without raising and without a    *)
(* call of the date library.                                               *)
C17_GuardsReturnNothing ==
    (pc = "parsed" /\ Guarded(given)) =>
        /\ returned.value = None
        /\ returned.raised = ""
        /\ returned.calls = 0

\* " 2025 " is four digits once normalised: None without asking the library,
\* which would have answered with a date
C17_Witness ==
    /\ pc = "parsed"
    /\ given = Str(" 2025 ")
    /\ fuzzy_answer = ParsedDate(2025, 1, 1)
    /\ returned.value = None
    /\ returned.calls = 0

\* the month a name of month_names stands for
MonthOfName(i) == ((i - 1) % 12) + 1

\* the months named in the text, and the 20xx years standing in it as words
MonthsIn(text) ==
    {MonthOfName(i) : i \in {k \in 1..Len(month_names) :
                                Contains(lower(text), month_names[k])}}
YearsIn(text) == {int(SubSeq(text, i, i + 3)) : i \in YearPositions(text)}

\* parse_date_string returned the library's fuzzy answer
ReturnedFuzzy ==
    /\ pc = "parsed"
    /\ returned.path = "fuzzy"
    /\ returned.value # None

(* C18 as stated: a date returned from the fuzzy path has the month of     *)
(* every month name contained in the text and the year of every 4-digit    *)
(* 20xx year contained in the text.                                        *)
C18_AsStated ==
    ReturnedFuzzy =>
        /\ returned.value = AsDatetime(fuzzy_answer)
        /\ \A m \in MonthsIn(Normalised(given)) : fuzzy_answer.month = m
        /\ \A y \in YearsIn(Normalised(given)) : fuzzy_answer.year = y

(* C18: a date returned from the fuzzy path is the library's answer, has   *)
(* the month of every month name (3-letter or full, in any case) contained *)
(* in the text, and has the year of the first 4-digit 20xx year that       *)
(* stands in the text as a word; an answer that differs in one of them     *)
(* gives None.                                                             *)
C18_MonthAndFirstYear ==
    /\ ReturnedFuzzy =>
          /\ returned.value = AsDatetime(fuzzy_answer)
          /\ \A m \in MonthsIn(Normalised(given)) : fuzzy_answer.month = m
          /\ YearsIn(Normalised(given)) # {} =>
                fuzzy_answer.year
                  = int(SubSeq(Normalised(given),
                               Least(YearPositions(Normalised(given))),
                               Least(YearPositions(Normalised(given))) + 3))
    /\ (/\ pc = "parsed"
        /\ returned.path = "fuzzy"
        /\ fuzzy_answer.kind = "date"
        /\ \/ \E m \in MonthsIn(Normalised(given)) : fuzzy_answer.month # m
           \/ /\ YearsIn(Normalised(given)) # {}
              /\ fuzzy_answer.year
                   # int(SubSeq(Normalised(given),
                                Least(YearPositions(Normalised(given))),
                                Least(YearPositions(Normalised(given))) + 3)))
          => returned.value = None /\ returned.raised = ""

\* "15 Mar (see page 2024)" answered with a date in March 2025 is rejected
C18_Witness ==
    /\ pc = "parsed"
    /\ given = Str("15 Mar (see page 2024)")
    /\ fuzzy_answer = ParsedDate(2025, 3, 20)
    /\ returned.path = "fuzzy"
    /\ returned.value = None

(* C19: for every date written 'D Month YYYY' with a full English month    *)
(* name, when the date library reads the day, the month and the year as    *)
(* written, parse_date_string returns exactly that date, for each of the   *)
(* twelve months.                                                          *)
C19_DMonthYYYY ==
    pc = "parsed" =>
        \A d \in Days, m \in 1..12, y \in WrittenYears :
            (given = Str(DMonthYYYY(d, m, y)) /\ fuzzy_answer = ParsedDate(y, m, d))
               => /\ returned.value = AsDatetime(ParsedDate(y, m, d))
                  /\ returned.raised = ""

\* "20 December 2025", read as written, comes back as 20 December 2025
C19_Witness ==
    /\ pc = "parsed"
    /\ given = Str("20 December 2025")
    /\ fuzzy_answer = ParsedDate(2025, 12, 20)
    /\ returned.value = Datetime("2025-12-20")

-----------------------------------------------------------------------------
(* SpecFetch: fetch_html, one step for each request and each sleep         *)

\* SCRAPER_CONFIG["max_retries"]
ConfigMaxRetries == 3

\* the largest max_retries a caller passes
MaxRetriesArg == 4

\* What requests.get and raise_for_status come to: a response with a text,
\* a RequestException (a connection error, a timeout, the HTTPError of a 4xx
\* or 5xx status), or an exception that is no RequestException
Ok(text) == <<"ok", text>>
RequestException(e) == <<"RequestException", e>>
OtherException(e) == <<"Exception", e>>
Answers ==
    {Ok("<html>Success</html>"), Ok(""), RequestException("ConnectionError"),
     RequestException("Timeout"), RequestException("HTTPError"),
     OtherException("KeyboardInterrupt")}

\* max_retries if max_retries is not None else config["max_retries"]
Defaulted(max_retries_arg) ==
    IF max_retries_arg = None THEN ConfigMaxRetries ELSE max_retries_arg[2]

InitFetch ==
    /\ pc = "loop"
    /\ MainIdle
    /\ current = <<>>
    /\ previous = <<>>
    /\ report = NoReport
    /\ StoreIdle
    /\ ExtractIdle
    /\ ParseIdle
    /\ \E arg \in {None} \cup {<<"int", n>> : n \in 0..MaxRetriesArg} :
          max_retries = Defaulted(arg)
    /\ attempt = 0
    /\ requests = <<>>
    /\ fetched = None

InRange_Inclusive(i, n) == i <= n

\* for attempt in range(max_retries): the loop has another round
InRange(i, n) == i < n

\* one round of the loop: the request, and what follows its answer
Request ==
    /\ pc = "loop"
    /\ InRange(attempt, max_retries)
    /\ \E answer \in Answers :
          /\ requests' = Append(requests, answer)
          /\ IF answer[1] = "ok"
             THEN fetched' = Str(answer[2]) /\ pc' = "returned"
             ELSE IF answer[1] = "RequestException"
                  THEN IF attempt < max_retries - 1
                       THEN fetched' = fetched /\ pc' = "sleep"
                       ELSE fetched' = None /\ pc' = "returned"
                  ELSE fetched' = fetched /\ pc' = "raised"
    /\ UNCHANGED <<mainVars, current, previous, report, storeVars, extractVars, parseVars,
                   max_retries, attempt>>

\* time.sleep(retry_delay), then the next round
Sleep ==
    /\ pc = "sleep"
    /\ attempt' = attempt + 1
    /\ pc' = "loop"
    /\ UNCHANGED <<mainVars, current, previous, report, storeVars, extractVars, parseVars,
                   max_retries, requests, fetched>>

\* the return None after the loop
LoopEnd ==
    /\ pc = "loop"
    /\ ~InRange(attempt, max_retries)
    /\ fetched' = None
    /\ pc' = "returned"
    /\ UNCHANGED <<mainVars, current, previous, report, storeVars, extractVars, parseVars,
                   max_retries, attempt, requests>>

NextFetch == Request \/ Sleep \/ LoopEnd

\* requests.get has a timeout and time.sleep ends: a step that can be taken
\* is taken
SpecFetch == InitFetch /\ [][NextFetch]_vars /\ WF_vars(NextFetch)

FetchDone == pc \in {"returned", "raised"}

\* what holds of the requests made so far, and of the value returned
FetchSafe ==
    /\ Len(requests) <= max_retries
    /\ \A i \in 1..(Len(requests) - 1) : requests[i][1] = "RequestException"
    /\ pc = "returned" =>
          IF requests # <<>> /\ requests[Len(requests)][1] = "ok"
          THEN fetched = Str(requests[Len(requests)][2])
          ELSE /\ fetched = None
               /\ Len(requests) = max_retries
               /\ \A i \in 1..Len(requests) : requests[i][1] = "RequestException"
    /\ pc = "raised" => requests[Len(requests)][1] = "Exception"

(* C20: fetch_html terminates; it makes at most max_retries requests, one  *)
(* after another, none after the first that succeeds; it returns the text  *)
(* of the first successful response, and returns None, without raising,    *)
(* when max_retries requests have failed with a request error.             *)
C20_BoundedRetry == []FetchSafe /\ <>FetchDone

\* two request errors, then a response whose text is returned
C20_Witness ==
    /\ pc = "returned"
    /\ max_retries = 3
    /\ Len(requests) = 3
    /\ requests[1][1] = "RequestException"
    /\ requests[3] = Ok("<html>Success</html>")
    /\ fetched = Str("<html>Success</html>")

-----------------------------------------------------------------------------
(* main.py: scrape_theaters *)

\* the keys of THEATER_URLS, in the order of the dict
ConfiguredTheaters ==
    <<"donmar", "bridge", "national", "hampstead", "marylebone", "soho_dean",
      "soho_walthamstow", "rsc", "royal_court", "drury_lane">>

\* THEATER_URLS[theater_id]
THEATER_URLS(theater_id) == Origin(theater_id) \o PagePath(theater_id)

Elements(seq) == {seq[i] : i \in 1..Len(seq)}

\* args.theaters is None (the option was not given) or a list of ids
Given(theater_ids) == theater_ids # None /\ theater_ids # <<>>

Selected_RequestOrder(theater_ids) ==
    IF ~Given(theater_ids) THEN ConfiguredTheaters
    ELSE SelectSeq(theater_ids, LAMBDA id : id \in Elements(ConfiguredTheaters))

\* theater_urls as the loop goes through it: the whole dict, or the
\* comprehension {id: url for id, url in theater_urls.items() if id in
\* theater_ids}, which keeps the order of the dict
Selected(theater_ids) ==
    IF ~Given(theater_ids) THEN ConfiguredTheaters
    ELSE SelectSeq(ConfiguredTheaters, LAMBDA id : id \in Elements(theater_ids))

\* TheaterShow(...) as the extractors call it: the fields they do not pass
\* take the defaults of the dataclass, last_updated the time of the call
TheaterShow(fields) ==
    [f \in ShowFields |->
        IF f \in DOMAIN fields THEN fields[f]
        ELSE IF f = "last_updated" THEN Datetime("2025-03-10")
        ELSE None]

RECURSIVE TheaterShows(_, _)
TheaterShows(extracted, i) ==
    IF i > Len(extracted) THEN <<>>
    ELSE <<TheaterShow(extracted[i])>> \o TheaterShows(extracted, i + 1)

Returns(shows) == [shows |-> shows, raised |-> ""]
Raises(e) == [shows |-> <<>>, raised |-> e]

\* scrape_theater_shows(theater_id, url), answer being what fetch_html(url)
\* comes to: an exception that is no RequestException leaves fetch_html and
\* scrape_theater_shows, which catch nothing
scrape_theater_shows(theater_id, answer) ==
    IF answer[1] = "Exception" THEN Raises(answer[2])
    ELSE IF ~Truthy(answer) THEN Returns(<<>>)
    ELSE Returns(TheaterShows(parse_theater_page(answer, theater_id).shows, 1))

\* one pass of the loop body without the else branch of "if shows"
AfterSite_SilentWhenEmpty(acc, theater_id, out) ==
    IF out.raised # ""
    THEN [acc EXCEPT !.attempted = Append(@, theater_id),
                     !.errors = Append(@, "Error scraping " \o theater_id
                                          \o ": " \o out.raised)]
    ELSE [acc EXCEPT !.attempted = Append(@, theater_id),
                     !.all_shows = @ \o out.shows]

\* one pass of the loop body: try: shows = scrape_theater_shows(...); if
\* shows: all_shows.extend(shows) else: errors.append(...); except Exception
AfterSite(acc, theater_id, out) ==
    IF out.raised # ""
    THEN [acc EXCEPT !.attempted = Append(@, theater_id),
                     !.errors = Append(@, "Error scraping " \o theater_id
                                          \o ": " \o out.raised)]
    ELSE IF out.shows # <<>>
    THEN [acc EXCEPT !.attempted = Append(@, theater_id),
                     !.all_shows = @ \o out.shows]
    ELSE [acc EXCEPT !.attempted = Append(@, theater_id),
                     !.errors = Append(@, "No shows found on " \o theater_id
                                          \o " at " \o THEATER_URLS(theater_id))]

RECURSIVE ScrapeLoop(_, _, _, _)
\* for theater_id, url in theater_urls.items()
ScrapeLoop(theater_urls, answers, i, acc) ==
    IF i > Len(theater_urls) THEN acc
    ELSE ScrapeLoop(theater_urls, answers, i + 1,
                    AfterSite(acc, theater_urls[i],
                              scrape_theater_shows(theater_urls[i],
                                                   answers[theater_urls[i]])))

RECURSIVE ListRepr(_, _)
\* the inside of repr(list) from the element i on
ListRepr(list, i) ==
    IF i > Len(list) THEN ""
    ELSE "'" \o list[i] \o "'" \o (IF i < Len(list) THEN ", " ELSE "")
         \o ListRepr(list, i + 1)

NothingScraped == [all_shows |-> <<>>, errors |-> <<>>, attempted |-> <<>>]

ScrapeSelected(theater_ids, theater_urls, answers) ==
    IF Given(theater_ids) /\ theater_urls = <<>>
    THEN [NothingScraped EXCEPT
             !.errors = <<"No valid theater IDs found among: ["
                          \o ListRepr(theater_ids, 1) \o "]">>]
    ELSE ScrapeLoop(theater_urls, answers, 1, NothingScraped)

\* scrape_theaters(theater_ids), answers being what fetch_html comes to for
\* each site: the records, the error strings, and the calls of
\* scrape_theater_shows made
scrape_theaters(theater_ids, answers) ==
    ScrapeSelected(theater_ids, Selected(theater_ids), answers)

-----------------------------------------------------------------------------
(* SpecScrape: scrape_theaters over selections of sites and over what each *)
(* site's fetch comes to                                                   *)

\* a page without a show container, and a page with two
NoCardsPage == [found |-> TRUE, cards |-> <<>>]
TwoCardsPage ==
    [found |-> TRUE,
     cards |-> <<Container(Titled("Hamlet"), NoDetails),
                 Container(Titled("Macbeth"), NoDetails)>>]

\* what fetch_html comes to for a site that answers or breaks; a site that
\* is neither comes to None, the failed fetch
LiveAnswers ==
    {OtherException("Test error"), Html(NoCardsPage), Html(TwoCardsPage)}

\* at most MaxLive sites come to something else than a failed fetch
MaxLive == 2

AnswerMaps(live) ==
    UNION {{[s \in Sites |-> IF s \in L THEN g[s] ELSE None] :
               g \in [L -> LiveAnswers]} :
           L \in {K \in SUBSET live : Cardinality(K) <= MaxLive}}

TheaterChoices ==
    {None, <<"unknown_theater">>, <<"soho_dean", "donmar">>, <<"rsc", "rsc">>,
     <<"unknown_theater", "national">>}

InitScrape ==
    /\ pc = "start"
    /\ theaters \in TheaterChoices
    /\ no_email = FALSE
    /\ config_issues = <<>>
    /\ scrapes \in AnswerMaps(Sites)
    /\ all_shows = <<>>
    /\ errors = <<>>
    /\ attempted = <<>>
    /\ email_config = <<>>
    /\ smtp_raises = <<"", "">>
    /\ smtp_log = <<>>
    /\ notified = None
    /\ status = None
    /\ current = <<>>
    /\ previous = <<>>
    /\ report = NoReport
    /\ StoreIdle
    /\ ExtractIdle
    /\ ParseIdle
    /\ FetchIdle

\* shows, errors = scrape_theaters(args.theaters)
Scrape ==
    /\ pc \in {"start", "validated"}
    /\ LET out == scrape_theaters(theaters, scrapes)
       IN  /\ all_shows' = out.all_shows
           /\ errors' = out.errors
           /\ attempted' = out.attempted
    /\ pc' = "scraped"
    /\ UNCHANGED <<theaters, no_email, config_issues, scrapes, email_config,
                   smtp_raises, smtp_log, notified, status, current,
                   previous, report, storeVars, extractVars, parseVars,
                   fetchVars>>

NextScrape == Scrape

SpecScrape == InitScrape /\ [][NextScrape]_vars

\* the sites a run is to scrape: the configured ones, or those of them that
\* were asked for
Wanted ==
    IF theaters = None THEN Elements(ConfiguredTheaters)
    ELSE Elements(ConfiguredTheaters) \cap Elements(theaters)

Count(seq, Test(_)) == Cardinality({i \in 1..Len(seq) : Test(seq[i])})

\* the records of all_shows that came from a site, in their order
ShowsFrom(s) == SelectSeq(all_shows, LAMBDA show : show.theater_id = Str(s))

\* the error strings about a site
ErrorsAbout(s) ==
    SelectSeq(errors, LAMBDA e : \/ startswith(e, "Error scraping " \o s \o ": ")
                                 \/ startswith(e, "No shows found on " \o s \o " at "))

\* what the site's own scrape came to
ScrapeOf(s) == scrape_theater_shows(s, scrapes[s])

Fruitless(s) == ScrapeOf(s).raised # "" \/ ScrapeOf(s).shows = <<>>

(* C21: scrape_theaters attempts every selected site exactly once, also     *)
(* after earlier sites raised or returned nothing; a site whose scrape      *)
(* raises or yields no shows (a failed fetch included) contributes exactly  *)
(* one error string and no shows, and a site that yields shows contributes  *)
(* all of them and no error.                                                *)
C21_EverySiteOnce ==
    pc = "scraped" =>
        /\ Elements(attempted) = Wanted
        /\ \A s \in Wanted : Count(attempted, LAMBDA a : a = s) = 1
        /\ \A s \in Wanted :
              IF Fruitless(s)
              THEN Len(ErrorsAbout(s)) = 1 /\ ShowsFrom(s) = <<>>
              ELSE ErrorsAbout(s) = <<>> /\ ShowsFrom(s) = ScrapeOf(s).shows

\* the first site raises, the second fetch fails, a later site yields its two
\* shows, and every configured site was attempted
C21_Witness ==
    /\ pc = "scraped"
    /\ theaters = None
    /\ scrapes["donmar"] = OtherException("Test error")
    /\ scrapes["bridge"] = None
    /\ scrapes["rsc"] = Html(TwoCardsPage)
    /\ Len(attempted) = 10
    /\ Len(errors) = 9
    /\ Len(all_shows) = 2
    /\ errors[1] = "Error scraping donmar: Test error"
    /\ errors[2] = "No shows found on bridge at https://bridgetheatre.co.uk/performances/"

RECURSIVE Concat(_, _)
\* the results of the sites from the position i of the configured order on
Concat(order, i) ==
    IF i > Len(order) THEN <<>>
    ELSE (IF order[i] \in Wanted THEN ScrapeOf(order[i]).shows ELSE <<>>)
         \o Concat(order, i + 1)

(* C22: the record collection scrape_theaters returns, which main hands to *)
(* the differ, is the concatenation of the per-site results in configured  *)
(* site order, each site's records in extraction order, whichever sites    *)
(* failed and in whatever order the sites were asked for.                  *)
C22_ConfiguredOrder ==
    pc = "scraped" => all_shows = Concat(ConfiguredTheaters, 1)

\* soho_dean was asked for before donmar, another site failed in between,
\* and donmar's two records come first, in the order of its page
C22_Witness ==
    /\ pc = "scraped"
    /\ theaters = <<"soho_dean", "donmar">>
    /\ scrapes["donmar"] = Html(TwoCardsPage)
    /\ scrapes["soho_dean"] = Html(TwoCardsPage)
    /\ Len(all_shows) = 4
    /\ all_shows[1].theater_id = Str("donmar")
    /\ all_shows[1].title = Str("Hamlet")
    /\ all_shows[2].title = Str("Macbeth")
    /\ all_shows[3].theater_id = Str("soho_dean")

-----------------------------------------------------------------------------
(* config.py: validate_config; notifier.py: compose_email, send_email,     *)
(* notify_updates                                                          *)

PyInt(n) == <<"int", ToString(n)>>
PyBool(b) == <<"bool", IF b THEN "True" ELSE "False">>

\* bool(v) of a setting: "" and 0 are falsy
Configured(v) == Truthy(v) /\ v # PyInt(0)

RECURSIVE MissingOf(_, _, _, _)
\* for field in fields: if not EMAIL_CONFIG.get(field): issues.append(...)
MissingOf(config, fields, i, message) ==
    IF i > Len(fields) THEN <<>>
    ELSE (IF Configured(config[fields[i]]) THEN <<>>
          ELSE <<message \o fields[i]>>)
         \o MissingOf(config, fields, i + 1, message)

RECURSIVE Unwritable(_, _, _)
\* for directory in [SNAPSHOT_DIR, LOG_DIR]: if not os.access(directory, W_OK)
Unwritable(directories, writable, i) ==
    IF i > Len(directories) THEN <<>>
    ELSE (IF directories[i] \in writable THEN <<>>
          ELSE <<"Directory not writable: " \o directories[i]>>)
         \o Unwritable(directories, writable, i + 1)

\* validate_config(), writable being the directories os.access grants
validate_config(config, writable) ==
    (IF Truthy(config.sender_email) \/ Truthy(config.recipient_email)
     THEN MissingOf(config, <<"smtp_server", "sender_email", "recipient_email">>,
                    1, "Missing required email config: ")
     ELSE <<>>)
    \o Unwritable(<<"data/snapshots", "data/logs">>, writable, 1)

\* compose_email(comparison_results, errors): the subject, and of the body
\* the section headings and the error lines
compose_email(comparison_results, errs) ==
    [subject |-> "London Theater Updates",
     body |-> <<"## New Shows ("
                  \o ToString(Len(comparison_results.new_shows)) \o ")",
                "## Updated Shows ("
                  \o ToString(Len(comparison_results.updated_shows)) \o ")",
                "## Removed Shows ("
                  \o ToString(Len(comparison_results.removed_shows)) \o ")",
                "## Unchanged Shows ("
                  \o ToString(Len(comparison_results.unchanged_shows)) \o ")">>
              \o (IF errs = <<>> THEN <<>>
                  ELSE <<"## Errors Encountered (" \o ToString(Len(errs)) \o ")">>
                       \o errs)]

required_fields == <<"smtp_server", "smtp_port", "sender_email", "recipient_email">>

\* the calls send_email makes on the SMTP transport, each with what it is
\* handed
SmtpSteps(config, email_content) ==
    <<<<"SMTP", config.smtp_server[2]>>>>
    \o (IF config.use_tls THEN <<<<"starttls", "">>>> ELSE <<>>)
    \o (IF Truthy(config.sender_password)
        THEN <<<<"login", config.sender_email[2]>>>> ELSE <<>>)
    \o <<<<"send_message", email_content.subject>>, <<"quit", "">>>>

\* the exceptions the transport raises: smtplib.SMTPException and OSError
\* (a refused or timed-out connection)
TransportErrors == {"SMTPException", "OSError"}

Caught_SMTPOnly(e) == e = "SMTPException"

\* except Exception as e: both are subclasses of Exception
Caught(e) == e \in TransportErrors

\* the try block of send_email over the calls steps, the call named
\* raising[1] raising raising[2]
Transport(steps, raising) ==
    IF \A i \in 1..Len(steps) : steps[i][1] # raising[1]
    THEN [returned |-> PyBool(TRUE), raised |-> "", log |-> steps]
    ELSE LET made == SubSeq(steps, 1,
                            CHOOSE i \in 1..Len(steps) : steps[i][1] = raising[1])
         IN  IF Caught(raising[2])
             THEN [returned |-> PyBool(FALSE), raised |-> "", log |-> made]
             ELSE [returned |-> None, raised |-> raising[2], log |-> made]

\* send_email(email_content) under the configuration config
send_email(email_content, config, raising) ==
    IF \E i \in 1..Len(required_fields) : ~Configured(config[required_fields[i]])
    THEN [returned |-> PyBool(FALSE), raised |-> "", log |-> <<>>]
    ELSE Transport(SmtpSteps(config, email_content), raising)

\* notify_updates(comparison_results, errors)
notify_updates(comparison_results, errs, config, raising) ==
    send_email(compose_email(comparison_results, errs), config, raising)

-----------------------------------------------------------------------------
(* SpecMain: runs of main                                                  *)

\* EMAIL_CONFIG with every setting given, as config.py defaults it (no
\* password), and with one or two settings missing
CompleteConfig ==
    [smtp_server |-> Str("smtp.gmail.com"), smtp_port |-> PyInt(587),
     use_tls |-> TRUE, sender_email |-> Str("sender@example.com"),
     sender_password |-> Str("app password"),
     recipient_email |-> Str("recipient@example.com")]
DefaultConfig == [CompleteConfig EXCEPT !.sender_password = Str("")]

EmailConfigs ==
    {CompleteConfig, DefaultConfig,
     [CompleteConfig EXCEPT !.use_tls = FALSE],
     [DefaultConfig EXCEPT !.smtp_port = PyInt(0)],
     [DefaultConfig EXCEPT !.sender_email = Str(""), !.recipient_email = Str("")],
     [DefaultConfig EXCEPT !.smtp_server = Str("")],
     [DefaultConfig EXCEPT !.recipient_email = Str("")]}

NoRaise == <<"", "">>
SmtpRaises ==
    {NoRaise} \cup ({"SMTP", "starttls", "login", "send_message", "quit"}
                    \X TransportErrors)

\* the snapshots directory before the run: empty, or holding the snapshot
\* of the day before
EarlierSnapshots ==
    save_snapshot(<<>>, scrape_theater_shows("donmar", Html(TwoCardsPage)).shows,
                  SnapshotName(1), 1)

InitMain ==
    /\ pc = "main"
    /\ theaters \in {None, <<"unknown_theater">>, <<"soho_dean", "donmar">>}
    /\ no_email \in BOOLEAN
    /\ config_issues = <<>>
    /\ scrapes \in AnswerMaps({"donmar", "soho_dean"})
    /\ all_shows = <<>>
    /\ errors = <<>>
    /\ attempted = <<>>
    /\ email_config \in EmailConfigs
    /\ smtp_raises \in SmtpRaises
    /\ no_email => email_config = DefaultConfig /\ smtp_raises = NoRaise
    /\ smtp_log = <<>>
    /\ notified = None
    /\ status = None
    /\ current = <<>>
    /\ previous = <<>>
    /\ report = NoReport
    /\ files \in {<<>>, EarlierSnapshots}
    /\ clock = 1
    /\ today = 2
    /\ runs = 0
    /\ previous_filename = None
    /\ loaded = <<>>
    /\ ExtractIdle
    /\ ParseIdle
    /\ FetchIdle

\* config_issues = validate_config(); if config_issues: sys.exit(1)
Validate ==
    /\ pc = "main"
    /\ \E writable \in {{"data/snapshots", "data/logs"}, {"data/logs"}} :
          config_issues' = validate_config(email_config, writable)
    /\ pc' = IF config_issues' = <<>> THEN "validated" ELSE "exited"
    /\ status' = IF config_issues' = <<>> THEN None ELSE PyInt(1)
    /\ UNCHANGED <<theaters, no_email, scrapes, all_shows, errors, attempted,
                   email_config, smtp_raises, smtp_log, notified, current,
                   previous, report, storeVars, extractVars, parseVars,
                   fetchVars>>

\* if not shows: sys.exit(1)
ExitNoShows ==
    /\ pc = "scraped"
    /\ all_shows = <<>>
    /\ status' = PyInt(1)
    /\ pc' = "exited"
    /\ UNCHANGED <<theaters, no_email, config_issues, scrapes, all_shows,
                   errors, attempted, email_config, smtp_raises, smtp_log,
                   notified, current, previous, report, storeVars,
                   extractVars, parseVars, fetchVars>>

\* the snapshot taken whether or not anything was scraped
Snapshot_EvenWhenEmpty ==
    /\ pc = "scraped"
    /\ LET out == generate_daily_snapshot(files, all_shows, today, clock + 1)
       IN  /\ current' = all_shows
           /\ files' = out.files
           /\ previous_filename' = out.previous_filename
           /\ previous' = out.previous_shows
           /\ loaded' = out.previous_shows
           /\ report' = out.report
    /\ clock' = clock + 1
    /\ runs' = runs + 1
    /\ pc' = "compared"
    /\ UNCHANGED <<mainVars, today, extractVars, parseVars, fetchVars>>

\* comparison_results = generate_daily_snapshot(shows)
Snapshot ==
    /\ pc = "scraped"
    /\ all_shows # <<>>
    /\ LET out == generate_daily_snapshot(files, all_shows, today, clock + 1)
       IN  /\ current' = all_shows
           /\ files' = out.files
           /\ previous_filename' = out.previous_filename
           /\ previous' = out.previous_shows
           /\ loaded' = out.previous_shows
           /\ report' = out.report
    /\ clock' = clock + 1
    /\ runs' = runs + 1
    /\ pc' = "compared"
    /\ UNCHANGED <<mainVars, today, extractVars, parseVars, fetchVars>>

\* if not args.no_email: notify_updates(comparison_results, errors); an
\* exception that leaves notify_updates ends the run with a traceback
Notify ==
    /\ pc = "compared"
    /\ ~no_email
    /\ LET out == notify_updates(report, errors, email_config, smtp_raises)
       IN  /\ smtp_log' = out.log
           /\ notified' = out.returned
           /\ pc' = IF out.raised = "" THEN "notified" ELSE "exited"
           /\ status' = IF out.raised = "" THEN None ELSE PyInt(1)
    /\ UNCHANGED <<theaters, no_email, config_issues, scrapes, all_shows,
                   errors, attempted, email_config, smtp_raises, current,
                   previous, report, storeVars, extractVars, parseVars,
                   fetchVars>>

\* return 0
Finish ==
    /\ \/ pc = "notified"
       \/ pc = "compared" /\ no_email
    /\ status' = PyInt(0)
    /\ pc' = "exited"
    /\ UNCHANGED <<theaters, no_email, config_issues, scrapes, all_shows,
                   errors, attempted, email_config, smtp_raises, smtp_log,
                   notified, current, previous, report, storeVars,
                   extractVars, parseVars, fetchVars>>

NextMain == Validate \/ Scrape \/ ExitNoShows \/ Snapshot \/ Notify \/ Finish

\* main is one thread: once the comparison is made, and once nothing was
\* scraped, it runs on until it returns or exits
SpecMain ==
    /\ InitMain
    /\ [][NextMain]_vars
    /\ WF_vars(ExitNoShows)
    /\ WF_vars(Notify)
    /\ WF_vars(Finish)

SnapshotWritten == SnapshotName(today) \in DOMAIN files
NotificationAttempted == notified # None \/ smtp_log # <<>>
ScrapingDone == pc \in {"scraped", "compared", "notified"} \/ (pc = "exited" /\ config_issues = <<>>)

\* a run that scraped nothing goes from the scrape to exit status 1 and
\* writes and sends nothing; a run that ends with shows ends with status 0,
\* its snapshot written and compared
NoShowsNoTrace ==
    /\ ScrapingDone /\ all_shows = <<>> =>
          /\ pc \in {"scraped", "exited"}
          /\ pc = "exited" => status = PyInt(1)
          /\ ~SnapshotWritten
          /\ ~NotificationAttempted
    /\ pc = "exited" /\ all_shows # <<>> =>
          /\ status = PyInt(0)
          /\ SnapshotWritten
          /\ current = all_shows
          /\ report = compare_snapshots(current, previous)

(* C23: a run of main in which no show was scraped ends with exit status 1 *)
(* before any snapshot is written and before any notification is sent; a   *)
(* run in which at least one show was scraped, whatever sites failed, goes  *)
(* on to the snapshot and the comparison and ends with status 0.            *)
C23_ExitOnlyWhenNothingScraped ==
    /\ []NoShowsNoTrace
    /\ (pc = "scraped" /\ all_shows = <<>>) ~> (pc = "exited" /\ status = PyInt(1))
    /\ [][pc = "scraped" /\ all_shows # <<>>
            => pc' = "compared" /\ SnapshotWritten' /\ status' = None]_vars
    /\ pc = "compared" ~> (pc = "exited" /\ status = PyInt(0))

\* one site raised and the other's fetch failed: status 1, nothing written
C23_Witness ==
    /\ pc = "exited"
    /\ status = PyInt(1)
    /\ theaters = <<"soho_dean", "donmar">>
    /\ Len(attempted) = 2
    /\ Len(errors) = 2
    /\ all_shows = <<>>
    /\ files = EarlierSnapshots

\* one site failed and the other gave two shows: status 0, snapshot written
C23_WitnessSomeFailed ==
    /\ pc = "exited"
    /\ status = PyInt(0)
    /\ Len(errors) = 9
    /\ Len(all_shows) = 2
    /\ SnapshotWritten
    /\ Len(report.new_shows) = 2

\* a required setting is missing, or a call send_email makes raises
DeliveryFails ==
    \/ \E f \in {"smtp_server", "smtp_port", "sender_email", "recipient_email"} :
          email_config[f] \in {Str(""), PyInt(0)}
    \/ /\ smtp_raises[1] \in {"SMTP", "send_message", "quit"}
    \/ /\ smtp_raises[1] = "starttls" /\ email_config.use_tls
    \/ /\ smtp_raises[1] = "login" /\ email_config.sender_password # Str("")

\* once the notification was attempted it has come to True or False, False
\* when the delivery fails, and the run has not ended with status 1
FailedDeliveryReturnsFalse ==
    pc \in {"notified", "exited"} /\ all_shows # <<>> /\ ~no_email =>
        /\ notified \in {PyBool(TRUE), PyBool(FALSE)}
        /\ DeliveryFails => notified = PyBool(FALSE)
        /\ pc = "exited" => status = PyInt(0)

(* C24: a failed delivery never aborts the run: notify_updates (and        *)
(* send_email under it) returns False without raising when a required       *)
(* setting is missing or the SMTP transport raises at any step, and main    *)
(* then completes with status 0.                                            *)
C24_FailedDeliveryDoesNotAbort ==
    /\ []FailedDeliveryReturnsFalse
    /\ (pc = "notified" /\ notified = PyBool(FALSE))
          ~> (pc = "exited" /\ status = PyInt(0))

\* the login raised after the connection and STARTTLS were made; the run
\* ended with status 0
C24_Witness ==
    /\ pc = "exited"
    /\ status = PyInt(0)
    /\ notified = PyBool(FALSE)
    /\ smtp_raises = <<"login", "SMTPException">>
    /\ Len(smtp_log) = 3
    /\ smtp_log[3] = <<"login", "sender@example.com">>

\* the port is missing: nothing is sent, and the run ended with status 0
C24_WitnessIncomplete ==
    /\ pc = "exited"
    /\ status = PyInt(0)
    /\ notified = PyBool(FALSE)
    /\ email_config.smtp_port = PyInt(0)
    /\ smtp_log = <<>>

-----------------------------------------------------------------------------
(* Claims about the report as a whole *)

ReportKeys(list) == {Key(list[i]) : i \in 1..Len(list)}
UpdatedKeys(list) == {Key(list[i].current) : i \in 1..Len(list)}

(* C25: the report of compare_snapshots is a partition: every distinct key *)
(* of current is in exactly one of new_shows, updated_shows and            *)
(* unchanged_shows, every key in removed_shows is absent from current, no  *)
(* key occurs twice within one list, and the lengths of new, updated and   *)
(* unchanged add up to the number of distinct keys of current.             *)
C25_ReportIsPartition ==
    pc = "compared" =>
        /\ \A k \in KeysOf(current) :
              CountKey(report.new_shows, k)
              + CountUpdated(report.updated_shows, k)
              + CountKey(report.unchanged_shows, k) = 1
        /\ ReportKeys(report.new_shows) \cup UpdatedKeys(report.updated_shows)
              \cup ReportKeys(report.unchanged_shows) = KeysOf(current)
        /\ ReportKeys(report.removed_shows) \cap KeysOf(current) = {}
        /\ \A k \in ReportKeys(report.removed_shows) :
              CountKey(report.removed_shows, k) = 1
        /\ Len(report.new_shows) + Len(report.updated_shows)
              + Len(report.unchanged_shows) = Cardinality(KeysOf(current))

\* current holds a key twice; one key is new, one updated, and a previous
\* key is gone
C25_Witness ==
    /\ pc = "compared"
    /\ Len(current) = 3
    /\ Cardinality(KeysOf(current)) = 2
    /\ Len(report.new_shows) = 1
    /\ Len(report.updated_shows) = 1
    /\ report.unchanged_shows = <<>>

\* every list of the report is taken: new, unchanged and removed
C25_WitnessRemoved ==
    /\ pc = "compared"
    /\ Len(previous) = 2
    /\ Len(report.new_shows) = 1
    /\ Len(report.unchanged_shows) = 1
    /\ Len(report.removed_shows) = 1

\* the rows save_snapshot writes for a collection
RowsOf(shows) == save_snapshot(<<>>, shows, "rows.csv", 0)["rows.csv"].rows

\* the run compared against a snapshot of another day that was written from
\* the very collection it was handed
SameAsLastRun ==
    /\ pc = "ran"
    /\ previous_filename # None
    /\ previous_filename # Str(SnapshotName(today))
    /\ files[previous_filename[2]].rows = RowsOf(current)

(* C26: when generate_daily_snapshot is run on two different days with the *)
(* same collection, one without duplicate keys and with records whose      *)
(* price or description is absent, the second run reports every show       *)
(* unchanged and none new, updated or removed.                             *)
C26_SecondRunAllUnchanged ==
    SameAsLastRun /\ NoDuplicateKeys(current) =>
        /\ report.unchanged_shows = current
        /\ report.new_shows = <<>>
        /\ report.updated_shows = <<>>
        /\ report.removed_shows = <<>>

(* C27: when no earlier snapshot exists, generate_daily_snapshot(current)   *)
(* returns the report compare_snapshots(current, []) returns, for every     *)
(* current, also one that holds a (title, venue) key twice.                 *)
C27_FirstRunIsCompareWithEmpty ==
    pc = "ran" /\ previous_filename = None =>
        report = compare_snapshots(current, <<>>)

-----------------------------------------------------------------------------
(* Claims about the venue and the range separators of single extractors *)

\* the venue a Walthamstow container states for itself
OwnVenue(card) ==
    IF card.location # None /\ Contains(get_text_strip(card.location[2]), "Walthamstow")
    THEN get_text_strip(card.location[2])
    ELSE "Soho Theatre Walthamstow"

(* C28: in extract_soho_walthamstow_shows the venue of every record is     *)
(* decided by its own container alone: the location text when it mentions  *)
(* Walthamstow, 'Soho Theatre Walthamstow' otherwise, whichever containers  *)
(* came before it on the page.                                             *)
C28_VenueFromOwnCard ==
    pc = "extracted" /\ site = "soho_walthamstow" =>
        \A j \in 1..Len(result.shows) :
            result.shows[j].venue = Str(OwnVenue(SourceCard(j)))

-----------------------------------------------------------------------------
(* Claims about texts that name two months *)

\* the text reached the fuzzy parse, which answered with a date
FuzzyAnswered ==
    /\ pc = "parsed"
    /\ returned.path = "fuzzy"
    /\ fuzzy_answer.kind = "date"

(* C29: for every text that reaches the fuzzy parse and contains the names *)
(* of two different months (an unsplit range such as '12 Jan to 15 Mar     *)
(* 2025'), parse_date_string returns None, whatever date the fuzzy parser  *)
(* answers with.                                                           *)
C29_TwoMonthsReturnNothing ==
    FuzzyAnswered /\ Cardinality(MonthsIn(Normalised(given))) >= 2 =>
        /\ returned.value = None
        /\ returned.raised = ""

\* the parser answers with a date in the first month and the year of the
\* text, and None is returned all the same
C29_Witness ==
    /\ FuzzyAnswered
    /\ given = Str("12 Jan to 15 Mar 2025")
    /\ fuzzy_answer = ParsedDate(2025, 1, 20)
    /\ returned.value = None
    /\ returned.calls = 1

RECURSIVE Hyphenated(_)
\* the text with a hyphen in the place of every en dash
Hyphenated(text) ==
    IF text = "" THEN ""
    ELSE (IF Char(text, 1) = EnDash THEN "-" ELSE Char(text, 1))
         \o Hyphenated(From(text, 2))

\* the container with its date range written with a hyphen
WithHyphen(card) == [card EXCEPT !.date = Str(Hyphenated(card.date[2]))]

(* C30: in the Donmar, National Theatre and Drury Lane extractors a date   *)
(* range written with an en dash is split in a start part and an end part  *)
(* as the same range written with a hyphen is, so that the record has the  *)
(* two dates the hyphenated range gives: both performance dates are read,  *)
(* each from its own part.                                                 *)
C30_EnDashSplitsAsHyphen ==
    pc = "extracted" /\ site \in {"donmar", "national", "drury_lane"} =>
        \A j \in 1..Len(result.shows) :
            (SourceCard(j).date # None /\ Contains(SourceCard(j).date[2], EnDash)) =>
                /\ result.shows[j].performance_start_date
                      = DatesOf(site, WithHyphen(SourceCard(j))).start
                /\ result.shows[j].performance_end_date
                      = DatesOf(site, WithHyphen(SourceCard(j))).end

====
